---- MODULE Spec2Model ----
(***************************************************************************)
(* Event-study return analysis of financeGraph                             *)
(* (app/components/insider_analysis.py): the windowed return calculator,   *)
(* the committee-member classifier and the group aggregator, as state      *)
(* machines over a price table (stock_df) and an event table (insider_df), *)
(* with the cumulative return chart of the same file and the lag analysis  *)
(* of app/components/sentiment_analysis.py and frontend.py.                *)
(*                                                                         *)
(* Dates are whole days (integers).  A float is the exact rational it      *)
(* denotes, <<numerator, denominator>> in lowest terms; NaN, the missing   *)
(* value of a pandas column, is <<0, 0>>.  A text is a tuple of one-letter *)
(* strings, so that lower-casing and substring search are computed.        *)
(***************************************************************************)
EXTENDS Integers, Sequences, FiniteSets, TLC

VARIABLES
    stock_df,       \* the price table: a sequence of [Date, Close]
    insider_df,     \* the event table: a sequence of rows
    windows,        \* the horizon list of the call
    result_df,      \* calculate_post_transaction_returns' copy of insider_df
    pc,             \* where calculate_post_transaction_returns stands
    row,            \* position of the iterrows() loop in result_df
    closest_date,   \* the local closest_date of the last row processed
    future_date,    \* the local future_date, per window, of the last row processed
    success_count,  \* the local success_count
    raised,         \* an exception left calculate_post_transaction_returns
    committee_members,  \* identify_committee_members' dict, as built so far
    id_pc,          \* where identify_committee_members stands
    id_pos,         \* position of its loop in insider_df['insider_name'].unique()
    committee_count,    \* its local committee_count
    regular_count,  \* its local regular_count
    is_committee_dict,  \* analyze_transaction_impact's argument is_committee_dict
    an_pc,          \* where analyze_transaction_impact stands
    is_committee_column,    \* the column insider_df['is_committee'] it adds to its table
    quarter,        \* the column insider_df['quarter'] it adds to its table
    committee_mask, \* its local committee_mask
    regular_mask,   \* its local regular_mask
    results,        \* the dict it returns
    merged_df,      \* the table of daily returns and sentiment of the lag analysis
    rt_pc,          \* where the lag analysis stands
    lag_analysis,   \* its local frame lag_analysis, after dropna()
    correlations,   \* its local list correlations
    reaction,       \* what it returns or shows
    transaction_type,   \* create_reaction_time_chart's argument transaction_type
    filtered_df,    \* its local filtered_df
    car_pc,         \* where create_reaction_time_chart stands
    car_row,        \* position of its iterrows() loop in filtered_df
    car_data,       \* its local list car_data
    transaction_count,  \* its local transaction_count
    chart,          \* what it returns
    filtered_columns,   \* the columns of filtered_df that its table did not have when loaded
    stock_date_assigned,    \* stock_df['Date'] of the caller's price table has been assigned
    earlier         \* what the earlier call of each function returned, when it is called again

calc_vars == <<stock_df, insider_df, windows, result_df, pc, row,
               closest_date, future_date, success_count, raised>>

id_vars == <<committee_members, id_pc, id_pos, committee_count, regular_count>>

an_vars == <<is_committee_dict, an_pc, is_committee_column, quarter, committee_mask,
             regular_mask, results>>

rt_vars == <<merged_df, rt_pc, lag_analysis, correlations, reaction>>

car_vars == <<transaction_type, filtered_df, car_pc, car_row, car_data,
              transaction_count, chart, filtered_columns>>

caller_vars == <<stock_date_assigned, earlier>>

vars == <<calc_vars, id_vars, an_vars, rt_vars, car_vars, caller_vars>>

----------------------------------------------------------------------------
(* Bounds of the model. *)

\* The longest event table of the return calculator's runs.
MaxEvents == 2

\* The longest event table of the classifier's runs.
MaxRows == 3

\* The most rows of one kind in the event table of the analysis' runs.
MaxCopies == 5

\* The days on which the instrument may have traded.
TradingDays == {1, 2, 3, 10, 13}

\* The days on which an event may fall: on a trading day, between two
\* trading days, on the last trading day and after it.
EventDays == {1, 2, 4, 13, 14}

\* The close prices of the generic price tables.
PriceSet == {0, 100}

----------------------------------------------------------------------------
(* Values. *)

\* Python's None, for a date that did not resolve.
None == 0

\* numpy's nan: the missing value of a return column.
NaN == <<0, 0>>

IsNaN(v) == v[2] = 0

Abs(n) == IF n < 0 THEN -n ELSE n

RECURSIVE GCD(_, _)
GCD(a, b) == IF b = 0 THEN a ELSE GCD(b, a % b)

\* The float n / d, d # 0, as a rational in lowest terms with a positive
\* denominator.
Rat(n, d) ==
    LET g == GCD(Abs(n), Abs(d))
        s == IF d < 0 THEN -1 ELSE 1
    IN  <<(s * n) \div g, (s * d) \div g>>

RECURSIVE SortedSeq(_)
\* A set of days as the increasing sequence of its members.
SortedSeq(S) ==
    IF S = {} THEN <<>>
    ELSE LET m == CHOOSE x \in S : \A y \in S : x <= y
         IN  <<m>> \o SortedSeq(S \ {m})

Range(s) == {s[i] : i \in DOMAIN s}

----------------------------------------------------------------------------
(* The tables. *)

\* A missing text (None, NaN) of a column of texts.
NoText == <<"NaN">>

\* stock_df['Date'], in row order.
Dates(stock) == [i \in DOMAIN stock |-> stock[i].Date]

\* A dict that holds nothing.
EmptyDict == [k \in {} |-> None]

\* A row of the event table with no return column yet.  The index label is
\* idx, the event's timestamp is date.
EventRow(label, date, name, rel, type) ==
    [idx |-> label, date |-> date, insider_name |-> name,
     relationship |-> rel, transaction_type |-> type, returns |-> EmptyDict]

\* A slip of AddReturnColumns: the return columns start at 0.0, not at NaN.
AddReturnColumns_zero(df, ws) ==
    [i \in DOMAIN df |->
        [df[i] EXCEPT !.returns = [h \in Range(ws) |-> <<0, 1>>] @@ @]]

\* result_df[f'return_{window}d'] = np.nan, for every window of the list.
AddReturnColumns(df, ws) ==
    [i \in DOMAIN df |->
        [df[i] EXCEPT !.returns = [h \in Range(ws) |-> NaN] @@ @]]

\* result_df.at[idx, f'return_{window}d'] = value: every row that carries the
\* index label idx is written.
SetAt(df, label, window, value) ==
    [i \in DOMAIN df |->
        IF df[i].idx = label
        THEN [df[i] EXCEPT !.returns = (window :> value) @@ @]
        ELSE df[i]]

\* The lookup dictionary of closes by date; a later row of a repeated date
\* replaces the earlier one.
price_by_date(stock) ==
    [d \in Range(Dates(stock)) |->
        LET last == CHOOSE i \in DOMAIN stock :
                        /\ stock[i].Date = d
                        /\ \A j \in DOMAIN stock : stock[j].Date = d => j <= i
        IN  stock[last].Close]

----------------------------------------------------------------------------
(* calculate_post_transaction_returns: the calendar searches. *)

\* The buffer of the target search, in days.
Buffer == 10

RECURSIVE MinByKey(_, _, _, _)
\* min(d for d in dates if d >= txn_date, key=(d - txn_date).days,
\* default=None): the first candidate of the smallest key.
MinByKey(dates, txn_date, i, best) ==
    IF i > Len(dates) THEN best
    ELSE LET d == dates[i]
         IN  IF d >= txn_date /\ (best = None \/ d - txn_date < best - txn_date)
             THEN MinByKey(dates, txn_date, i + 1, d)
             ELSE MinByKey(dates, txn_date, i + 1, best)

\* A slip of find_closest_date: d > txn_date, the closest day strictly after.
find_closest_date_after(dates, txn_date) ==
    MinByKey(dates, txn_date + 1, 1, None)

\* The closest trading day on or after the transaction date, or None.
find_closest_date(dates, txn_date) == MinByKey(dates, txn_date, 1, None)

\* A slip of ScanFuture: the first date on or after the target date,
\* however far past it.
ScanFuture_unbounded(dates, target_date, i, fdate, future_delta) ==
    MinByKey(dates, target_date, 1, None)

RECURSIVE ScanFuture(_, _, _, _, _)
\* The loop over stock_df['Date'] that looks for the target day: the
\* candidate of the smallest distance below future_delta, leaving the loop
\* at an exact match.
ScanFuture(dates, target_date, i, fdate, future_delta) ==
    IF i > Len(dates) THEN fdate
    ELSE LET stock_date == dates[i]
             delta == stock_date - target_date
         IN  IF stock_date >= target_date /\ delta < future_delta
             THEN IF delta = 0 THEN stock_date
                  ELSE ScanFuture(dates, target_date, i + 1, stock_date, delta)
             ELSE ScanFuture(dates, target_date, i + 1, fdate, future_delta)

\* A slip of find_future_date: delta <= future_delta, a target exactly
\* window + 10 days past the target date is taken.
find_future_date_inclusive(dates, closest, window) ==
    ScanFuture(dates, closest + window, 1, None, window + Buffer + 1)

\* The future_date of one window: None at first, future_delta window + 10.
find_future_date(dates, closest, window) ==
    ScanFuture(dates, closest + window, 1, None, window + Buffer)

----------------------------------------------------------------------------
(* calculate_post_transaction_returns: one row of the iterrows() loop. *)

\* Python's true division of floats: a zero divisor raises.
DivRaises(divisor) == divisor = 0

\* A slip of return_pct: the fraction, not the percentage.
return_pct_fraction(future_price, base_price) ==
    Rat(future_price - base_price, base_price)

\* return_pct = (future_price - base_price) / base_price * 100
return_pct(future_price, base_price) ==
    Rat((future_price - base_price) * 100, base_price)

\* One pass of "for window in windows", from the state acc of the passes
\* before it: [df, future, success, exc].
WindowStep(acc, stock, label, closest, window) ==
    LET prices == price_by_date(stock)
        base_price == prices[closest]
        fdate == find_future_date(Dates(stock), closest, window)
        seen == (window :> fdate) @@ acc.future
    IN  IF fdate # None /\ fdate \in DOMAIN prices
        THEN IF DivRaises(base_price)
             THEN [acc EXCEPT !.future = seen, !.exc = "ZeroDivisionError"]
             ELSE [df |-> SetAt(acc.df, label, window,
                                return_pct(prices[fdate], base_price)),
                   future |-> seen,
                   success |-> acc.success + 1,
                   exc |-> "none"]
        ELSE [acc EXCEPT !.future = seen]

RECURSIVE WindowLoop_break(_, _, _, _, _, _)
\* A slip of WindowLoop: a window without a target leaves the loop.
WindowLoop_break(acc, stock, label, closest, ws, k) ==
    IF \/ k > Len(ws)
       \/ acc.exc # "none"
       \/ (k > 1 /\ acc.future[ws[k - 1]] = None)
    THEN acc
    ELSE WindowLoop_break(WindowStep(acc, stock, label, closest, ws[k]),
                          stock, label, closest, ws, k + 1)

RECURSIVE WindowLoop(_, _, _, _, _, _)
\* "for window in windows": the passes from the k-th on; a raised exception
\* leaves the loop.
WindowLoop(acc, stock, label, closest, ws, k) ==
    IF k > Len(ws) \/ acc.exc # "none" THEN acc
    ELSE WindowLoop(WindowStep(acc, stock, label, closest, ws[k]),
                    stock, label, closest, ws, k + 1)

\* The body of the try block for the row at position r: the anchor search,
\* then the windows.  [df, closest, future, success, exc].
RowBody(df, stock, ws, r, success) ==
    LET txn_date == df[r].date
        closest == find_closest_date(Dates(stock), txn_date)
        start == [df |-> df, future |-> EmptyDict, success |-> success,
                  exc |-> "none"]
    IN  IF closest = None \/ closest \notin DOMAIN price_by_date(stock)
        THEN [df |-> df, closest |-> closest, future |-> EmptyDict,
              success |-> success, exc |-> "none"]
        ELSE LET done == WindowLoop(start, stock, df[r].idx, closest, ws, 1)
             IN  [df |-> done.df, closest |-> closest, future |-> done.future,
                  success |-> done.success, exc |-> done.exc]

\* A slip of ExceptClause: the handler catches nothing the body raises.
ExceptClause_reraise(exc) == "propagate"

\* "except Exception as e: print(...); continue": what the handler of the
\* row's try block does with an exception raised in the body.
ExceptClause(exc) == "continue"

RECURSIVE RowsFrom(_, _, _, _)
\* The loop over the rows from position r on, the handler of the row's try
\* block continuing with the next row.  acc is what the body of the row
\* before left: [df, closest, future, success, exc].
RowsFrom(acc, stock, ws, r) ==
    IF r > Len(acc.df) THEN acc
    ELSE RowsFrom(RowBody(acc.df, stock, ws, r, acc.success), stock, ws, r + 1)

\* calculate_post_transaction_returns(insider_df, stock_df, windows) as one
\* call: the table it returns, with the last anchor, the last targets and
\* the count of returns it ends with.
calculate_post_transaction_returns(df, stock, ws) ==
    IF Len(df) = 0 \/ Len(stock) = 0
    THEN [df |-> df, closest |-> None, future |-> EmptyDict, success |-> 0,
          exc |-> "none"]
    ELSE RowsFrom([df |-> AddReturnColumns(df, ws), closest |-> None,
                   future |-> EmptyDict, success |-> 0, exc |-> "none"],
                  stock, ws, 1)

----------------------------------------------------------------------------
(* calculate_post_transaction_returns: the call. *)

\* The defensive check: an empty table returns a copy of insider_df as it is.
ReturnEmpty ==
    /\ pc = "start"
    /\ (Len(insider_df) = 0 \/ Len(stock_df) = 0)
    /\ result_df' = insider_df
    /\ pc' = "done"
    /\ UNCHANGED <<stock_df, insider_df, windows, row, closest_date,
                   future_date, success_count, raised>>
    /\ UNCHANGED <<id_vars, an_vars, rt_vars, car_vars, caller_vars>>

\* A slip of InitialSuccessCount: the count goes on from where the call
\* before left it.
InitialSuccessCount_carried == success_count

\* success_count = 0
InitialSuccessCount == 0

\* The copy, the assignment stock_df['Date'] = pd.to_datetime(...) to the
\* caller's price table, the NaN return columns, the price dictionary, the
\* counters.
Prepare ==
    /\ pc = "start"
    /\ Len(insider_df) > 0
    /\ Len(stock_df) > 0
    /\ result_df' = AddReturnColumns(insider_df, windows)
    /\ success_count' = InitialSuccessCount
    /\ row' = 1
    /\ pc' = "loop"
    /\ stock_date_assigned' = TRUE
    /\ UNCHANGED <<stock_df, insider_df, windows, closest_date, future_date,
                   raised>>
    /\ UNCHANGED <<id_vars, an_vars, rt_vars, car_vars, earlier>>

\* One iteration of "for idx, row in result_df.iterrows()".
ProcessRow ==
    /\ pc = "loop"
    /\ row <= Len(result_df)
    /\ LET out == RowBody(result_df, stock_df, windows, row, success_count)
       IN  /\ result_df' = out.df
           /\ closest_date' = out.closest
           /\ future_date' = out.future
           /\ success_count' = out.success
           /\ IF out.exc # "none" /\ ExceptClause(out.exc) # "continue"
              THEN /\ raised' = TRUE
                   /\ pc' = "done"
                   /\ row' = row
              ELSE /\ raised' = raised
                   /\ pc' = pc
                   /\ row' = row + 1
    /\ UNCHANGED <<stock_df, insider_df, windows>>
    /\ UNCHANGED <<id_vars, an_vars, rt_vars, car_vars, caller_vars>>

\* The loop is over: the summary line, and result_df is returned.
ReturnResult ==
    /\ pc = "loop"
    /\ row > Len(result_df)
    /\ pc' = "done"
    /\ UNCHANGED <<stock_df, insider_df, windows, result_df, row,
                   closest_date, future_date, success_count, raised>>
    /\ UNCHANGED <<id_vars, an_vars, rt_vars, car_vars, caller_vars>>

----------------------------------------------------------------------------
(* identify_committee_members. *)

\* The keywords that indicate committee membership.
committee_keywords ==
    << <<"C", "o", "m", "m", "i", "t", "t", "e", "e">>,
       <<"D", "i", "r", "e", "c", "t", "o", "r">>,
       <<"B", "o", "a", "r", "d">>,
       <<"C", "h", "a", "i", "r">>,
       <<"A", "u", "d", "i", "t">>,
       <<"C", "o", "m", "p", "e", "n", "s", "a", "t", "i", "o", "n">> >>

\* str.lower() on one letter.
LowerChar(c) ==
    CASE c = "A" -> "a" [] c = "B" -> "b" [] c = "C" -> "c" [] c = "D" -> "d"
      [] c = "E" -> "e" [] c = "F" -> "f" [] c = "G" -> "g" [] c = "H" -> "h"
      [] c = "I" -> "i" [] c = "J" -> "j" [] c = "K" -> "k" [] c = "L" -> "l"
      [] c = "M" -> "m" [] c = "N" -> "n" [] c = "O" -> "o" [] c = "P" -> "p"
      [] c = "Q" -> "q" [] c = "R" -> "r" [] c = "S" -> "s" [] c = "T" -> "t"
      [] c = "U" -> "u" [] c = "V" -> "v" [] c = "W" -> "w" [] c = "X" -> "x"
      [] c = "Y" -> "y" [] c = "Z" -> "z" [] OTHER -> c

\* A slip of Lower: the text is compared as it is written.
Lower_asis(text) == text

\* str.lower()
Lower(text) == [i \in DOMAIN text |-> LowerChar(text[i])]

\* Python's "sub in text" on strings.
Contains(sub, text) ==
    \E i \in 0..(Len(text) - Len(sub)) : SubSeq(text, i + 1, i + Len(sub)) = sub

\* any(keyword.lower() in str(rel).lower() for keyword in committee_keywords)
MatchesKeyword(rel) ==
    \E k \in DOMAIN committee_keywords :
        Contains(Lower(committee_keywords[k]), Lower(rel))

RECURSIVE Unique(_, _, _)
\* Series.unique(): the values in the order of their first appearance.
Unique(values, i, seen) ==
    IF i > Len(values) THEN seen
    ELSE IF values[i] \in Range(seen) THEN Unique(values, i + 1, seen)
         ELSE Unique(values, i + 1, Append(seen, values[i]))

\* insider_df['insider_name'].unique()
UniqueInsiders(df) == Unique([i \in DOMAIN df |-> df[i].insider_name], 1, <<>>)

\* insider_df[insider_df['insider_name'] == insider]['relationship']
\* .dropna().tolist()
relationship_values(df, insider) ==
    SelectSeq([i \in DOMAIN df |-> df[i]],
              LAMBDA r : r.insider_name = insider /\ r.relationship # NoText)

\* A slip of AnyRelationshipMatches: only the insider's first record is read.
AnyRelationshipMatches_first(rels, i) ==
    i <= Len(rels) /\ MatchesKeyword(rels[i].relationship)

RECURSIVE AnyRelationshipMatches(_, _)
\* "for rel in relationship_values": is_committee, with the break at the
\* first match.
AnyRelationshipMatches(rels, i) ==
    IF i > Len(rels) THEN FALSE
    ELSE IF MatchesKeyword(rels[i].relationship) THEN TRUE
         ELSE AnyRelationshipMatches(rels, i + 1)

\* is_committee of one insider.
is_committee_of(df, insider) ==
    AnyRelationshipMatches(relationship_values(df, insider), 1)

RECURSIVE ClassifyFrom(_, _, _, _)
\* The loop over the unique insiders from position i on, from the dict so far.
ClassifyFrom(df, insiders, i, members) ==
    IF i > Len(insiders) THEN members
    ELSE ClassifyFrom(df, insiders, i + 1,
             (insiders[i] :> is_committee_of(df, insiders[i])) @@ members)

\* The dict identify_committee_members returns for the table df.
identify_committee_members(df) ==
    ClassifyFrom(df, UniqueInsiders(df), 1, EmptyDict)

\* The call starts: an empty dict, the counters at zero.
IdentifyStart ==
    /\ id_pc = "start"
    /\ committee_members' = EmptyDict
    /\ committee_count' = 0
    /\ regular_count' = 0
    /\ id_pos' = 1
    /\ id_pc' = "loop"
    /\ UNCHANGED <<calc_vars, an_vars, rt_vars, car_vars, caller_vars>>

\* One iteration of "for insider in insider_df['insider_name'].unique()".
IdentifyInsider ==
    /\ id_pc = "loop"
    /\ id_pos <= Len(UniqueInsiders(insider_df))
    /\ LET insider == UniqueInsiders(insider_df)[id_pos]
           is_committee == is_committee_of(insider_df, insider)
       IN  /\ committee_members' = (insider :> is_committee) @@ committee_members
           /\ committee_count' = committee_count + (IF is_committee THEN 1 ELSE 0)
           /\ regular_count' = regular_count + (IF is_committee THEN 0 ELSE 1)
    /\ id_pos' = id_pos + 1
    /\ UNCHANGED <<id_pc, calc_vars, an_vars, rt_vars, car_vars, caller_vars>>

\* The loop is over: the debug lines, and committee_members is returned.
IdentifyReturn ==
    /\ id_pc = "loop"
    /\ id_pos > Len(UniqueInsiders(insider_df))
    /\ id_pc' = "done"
    /\ UNCHANGED <<committee_members, id_pos, committee_count, regular_count,
                   calc_vars, an_vars, rt_vars, car_vars, caller_vars>>

----------------------------------------------------------------------------
(* analyze_transaction_impact: the statistics. *)

\* The smallest sample for which statistics are reported.
MinSample == 5

\* The days of one quarter of the model's calendar.
QuarterDays == 90

\* A missing transaction type.
NoType == "NaN"

\* a + b on floats.
RatAdd(a, b) == Rat(a[1] * b[2] + b[1] * a[2], a[2] * b[2])

\* The floats inf and -inf.
PosInf == <<1, 0>>
NegInf == <<-1, 0>>

\* -a on floats: -nan is nan.
RatNeg(a) == <<-a[1], a[2]>>

\* a + b on floats that are numbers, over the least common denominator.
RatPlus(a, b) ==
    LET g == GCD(a[2], b[2])
    IN  Rat(a[1] * (b[2] \div g) + b[1] * (a[2] \div g), (a[2] \div g) * b[2])

\* a - b on floats that are numbers.
RatMinus(a, b) == RatPlus(a, RatNeg(b))

\* a * b on floats that are numbers, the common factors taken out first.
RatTimes(a, b) ==
    LET g1 == GCD(Abs(a[1]), b[2])
        g2 == GCD(Abs(b[1]), a[2])
    IN  Rat((a[1] \div g1) * (b[1] \div g2), (a[2] \div g2) * (b[2] \div g1))

\* numpy's a / b on floats that are numbers: 0 / 0 is nan and a / 0 is inf
\* or -inf.
RatOver(a, b) ==
    IF b[1] = 0
    THEN (IF a[1] = 0 THEN NaN ELSE IF a[1] > 0 THEN PosInf ELSE NegInf)
    ELSE RatTimes(a, <<(IF b[1] < 0 THEN -b[2] ELSE b[2]), Abs(b[1])>>)

\* a < b on floats.
RatLess(a, b) == a[1] * b[2] < b[1] * a[2]

RECURSIVE SumFrom(_, _)
\* The sum of the values of data from position i on.
SumFrom(data, i) ==
    IF i > Len(data) THEN <<0, 1>> ELSE RatAdd(data[i], SumFrom(data, i + 1))

\* Series.mean(): NaN for an empty series.
Mean(data) ==
    IF Len(data) = 0 THEN NaN
    ELSE LET total == SumFrom(data, 1) IN Rat(total[1], total[2] * Len(data))

RECURSIVE InsertSorted(_, _)
\* v put in its place in the increasing sequence sorted.
InsertSorted(v, sorted) ==
    IF sorted = <<>> THEN <<v>>
    ELSE IF RatLess(Head(sorted), v)
         THEN <<Head(sorted)>> \o InsertSorted(v, Tail(sorted))
         ELSE <<v>> \o sorted

RECURSIVE SortFrom(_, _)
\* The values of data from position i on, in increasing order.
SortFrom(data, i) ==
    IF i > Len(data) THEN <<>> ELSE InsertSorted(data[i], SortFrom(data, i + 1))

\* Series.median(): the middle value, or the mean of the two middle values.
Median(data) ==
    LET sorted == SortFrom(data, 1)
        n == Len(data)
    IN  IF n = 0 THEN NaN
        ELSE IF n % 2 = 1 THEN sorted[(n + 1) \div 2]
        ELSE Mean(<<sorted[n \div 2], sorted[n \div 2 + 1]>>)

RECURSIVE ColumnFrom(_, _, _, _)
\* df[mask][f'return_{window}d'].dropna(), from position i on: the values of
\* the rows the mask selects that are not NaN, in row order.
ColumnFrom(df, mask, window, i) ==
    IF i > Len(df) THEN <<>>
    ELSE IF mask[i] /\ ~IsNaN(df[i].returns[window])
         THEN <<df[i].returns[window]>> \o ColumnFrom(df, mask, window, i + 1)
         ELSE ColumnFrom(df, mask, window, i + 1)

\* df[mask][col].dropna()
DropNaColumn(df, mask, window) == ColumnFrom(df, mask, window, 1)

\* A slip of EnoughReturns: one return fewer is enough.
EnoughReturns_one_fewer(data) == Len(data) >= MinSample - 1

\* len(data) >= 5
EnoughReturns(data) == Len(data) >= MinSample

\* insider_df['transaction_type'] == txn_type
TypeMask(df, txn_type) == [i \in DOMAIN df |-> df[i].transaction_type = txn_type]

\* A slip of TooFewTransactions: a type of exactly five transactions is
\* skipped too.
TooFewTransactions_inclusive(df, txn_type) ==
    Cardinality({i \in DOMAIN df : df[i].transaction_type = txn_type}) <= MinSample

\* len(txn_df) < 5: too few transactions of the type.
TooFewTransactions(df, txn_type) ==
    Cardinality({i \in DOMAIN df : TypeMask(df, txn_type)[i]}) < MinSample

\* {'mean': ..., 'median': ..., 'count': ...}
Summary(data) == [mean |-> Mean(data), median |-> Median(data), count |-> Len(data)]

\* type_results of one transaction type: a summary for every window with
\* enough returns.
type_results(df, txn_type, ws) ==
    [w \in {h \in Range(ws) :
                EnoughReturns(DropNaColumn(df, TypeMask(df, txn_type), h))} |->
        Summary(DropNaColumn(df, TypeMask(df, txn_type), w))]

\* results['transaction_types']
transaction_types(df, ws) ==
    [t \in {x \in {df[i].transaction_type : i \in DOMAIN df} :
                /\ x # NoType
                /\ ~TooFewTransactions(df, x)
                /\ DOMAIN type_results(df, x, ws) # {}} |->
        type_results(df, t, ws)]

\* insider_df['insider_name'].map(is_committee_dict): NaN for a name the
\* dict does not hold.
MapDict(df, dict) ==
    [i \in DOMAIN df |->
        IF df[i].insider_name \in DOMAIN dict
        THEN (IF dict[df[i].insider_name] THEN "True" ELSE "False")
        ELSE "NaN"]

\* A slip of FillNa: the missing value is left in place.
FillNa_skipped(value, fill) == value

\* Series.fillna(fill), on one value.
FillNa(value, fill) == IF value = "NaN" THEN fill ELSE value

\* insider_df['is_committee'].fillna(False) == True
CommitteeMask(column) == [i \in DOMAIN column |-> FillNa(column[i], "False") = "True"]

\* insider_df['is_committee'].fillna(False) == False
RegularMask(column) == [i \in DOMAIN column |-> FillNa(column[i], "False") = "False"]

\* A slip of BothEnough: one group with enough returns is enough.
BothEnough_either(committee_data, regular_data) ==
    Len(committee_data) >= MinSample \/ Len(regular_data) >= MinSample

\* len(committee_data) >= 5 and len(regular_data) >= 5
BothEnough(committee_data, regular_data) ==
    Len(committee_data) >= MinSample /\ Len(regular_data) >= MinSample

\* results['committee_vs_regular']: for every window in which both groups
\* have enough returns.  The fields of the t test are not in this record.
committee_vs_regular(df, column, ws) ==
    [w \in {h \in Range(ws) :
                BothEnough(DropNaColumn(df, CommitteeMask(column), h),
                           DropNaColumn(df, RegularMask(column), h))} |->
        LET committee_data == DropNaColumn(df, CommitteeMask(column), w)
            regular_data == DropNaColumn(df, RegularMask(column), w)
        IN  [committee_mean |-> Mean(committee_data),
             committee_median |-> Median(committee_data),
             committee_count |-> Len(committee_data),
             regular_mean |-> Mean(regular_data),
             regular_median |-> Median(regular_data),
             regular_count |-> Len(regular_data)]]

RECURSIVE SumSquaresFrom(_, _, _)
\* The sum of the squared deviations from m of the values of data from
\* position i on.
SumSquaresFrom(data, m, i) ==
    IF i > Len(data) THEN <<0, 1>>
    ELSE LET dev == RatMinus(data[i], m)
         IN  RatPlus(RatTimes(dev, dev), SumSquaresFrom(data, m, i + 1))

\* np.var(data, ddof=1): the sample variance, nan for fewer than two values.
Var(data) ==
    IF Len(data) < 2 THEN NaN
    ELSE RatTimes(SumSquaresFrom(data, Mean(data), 1), <<1, Len(data) - 1>>)

\* A slip of equal_var: the pooled-variance test is asked for.
equal_var_pooled == TRUE

\* equal_var=False: Welch's test.
equal_var == FALSE

\* A slip of alternative: the one-sided test is asked for.
alternative_greater == "greater"

\* The alternative of the test, which the call leaves at its default.
alternative == "two-sided"

\* The square of the standard error under unequal variances:
\* v1 / n1 + v2 / n2.
WelchDenominator(v1, n1, v2, n2) ==
    RatPlus(RatTimes(v1, <<1, n1>>), RatTimes(v2, <<1, n2>>))

\* The Welch-Satterthwaite degrees of freedom,
\* (vn1 + vn2)^2 / (vn1^2 / (n1 - 1) + vn2^2 / (n2 - 1)), and 1 where that
\* is nan (both variances zero).
WelchDf(v1, n1, v2, n2) ==
    LET vn1 == RatTimes(v1, <<1, n1>>)
        vn2 == RatTimes(v2, <<1, n2>>)
        total == RatPlus(vn1, vn2)
        df == RatOver(RatTimes(total, total),
                      RatPlus(RatTimes(RatTimes(vn1, vn1), <<1, n1 - 1>>),
                              RatTimes(RatTimes(vn2, vn2), <<1, n2 - 1>>)))
    IN  IF df = NaN THEN <<1, 1>> ELSE df

\* The square of the standard error under a pooled variance:
\* ((n1 - 1) v1 + (n2 - 1) v2) / (n1 + n2 - 2) * (1 / n1 + 1 / n2).
PooledDenominator(v1, n1, v2, n2) ==
    LET svar == RatTimes(RatPlus(RatTimes(<<n1 - 1, 1>>, v1),
                                 RatTimes(<<n2 - 1, 1>>, v2)),
                         <<1, n1 + n2 - 2>>)
    IN  RatTimes(svar, RatPlus(<<1, n1>>, <<1, n2>>))

\* The t statistic d / sqrt(denominator), as the float sign(t) * t^2: the
\* square root of a float is no float of the model, and t -> sign(t) * t^2
\* keeps order, sign, zero, inf and nan.
TStatistic(d, denominator) ==
    RatOver(RatTimes(d, <<Abs(d[1]), d[2]>>), denominator)

\* |t| of a t statistic.
AbsT(t) == <<Abs(t[1]), t[2]>>

\* The p value of the t statistic under Student's t distribution with df
\* degrees of freedom: the probability of the tail beyond t, on both sides
\* for the two-sided alternative.  The tail probabilities are no floats of
\* the model: the p value is kept as the tail it measures, and two p values
\* are equal when they measure the same tail.
PValue(t, df, alt) ==
    [tail |-> alt, beyond |-> IF alt = "two-sided" THEN AbsT(t) ELSE t,
     df |-> df]

\* stats.ttest_ind(a, b, equal_var=...): the t statistic and the p value.
ttest_ind(a, b, equal) ==
    LET n1 == Len(a)
        n2 == Len(b)
        d == RatMinus(Mean(a), Mean(b))
        df == IF equal THEN <<n1 + n2 - 2, 1>>
              ELSE WelchDf(Var(a), n1, Var(b), n2)
        denominator == IF equal THEN PooledDenominator(Var(a), n1, Var(b), n2)
                       ELSE WelchDenominator(Var(a), n1, Var(b), n2)
        t == TStatistic(d, denominator)
    IN  [statistic |-> t, pvalue |-> PValue(t, df, alternative)]

\* The significance threshold.
Alpha == <<1, 20>>

\* bool(p_value < 0.05), kept as the comparison it evaluates.
significant_diff(p_value) == [p_value |-> p_value, below |-> Alpha]

\* results['committee_vs_regular'] with the fields of the t test: for every
\* window in which both groups have enough returns.
committee_vs_regular_tested(df, column, ws) ==
    [w \in {h \in Range(ws) :
                BothEnough(DropNaColumn(df, CommitteeMask(column), h),
                           DropNaColumn(df, RegularMask(column), h))} |->
        LET committee_data == DropNaColumn(df, CommitteeMask(column), w)
            regular_data == DropNaColumn(df, RegularMask(column), w)
            test == ttest_ind(committee_data, regular_data, equal_var)
        IN  [committee_mean |-> Mean(committee_data),
             committee_median |-> Median(committee_data),
             committee_count |-> Len(committee_data),
             regular_mean |-> Mean(regular_data),
             regular_median |-> Median(regular_data),
             regular_count |-> Len(regular_data),
             t_statistic |-> test.statistic,
             p_value |-> test.pvalue,
             significant_diff |-> significant_diff(test.pvalue)]]

\* insider_df['date'].dt.to_period('Q'): the quarter of a day.
Quarter(date) == (date - 1) \div QuarterDays

\* insider_df.groupby('quarter')[col].mean().reset_index().to_dict(
\* orient='records'): the quarters in increasing order, each with the mean
\* of its returns that are not NaN.
quarterly_means(df, column, window) ==
    LET quarters == SortedSeq(Range(column))
    IN  [k \in DOMAIN quarters |->
            [quarter |-> quarters[k],
             mean |-> Mean(DropNaColumn(df,
                          [i \in DOMAIN df |-> column[i] = quarters[k]], window))]]

\* results['over_time']: for every window whose quarterly means are not empty.
over_time(df, column, ws) ==
    [w \in {h \in Range(ws) : Len(df) > 0} |-> quarterly_means(df, column, w)]

\* The dict of results before any analysis.
EmptyResults ==
    [transaction_types |-> EmptyDict, committee_vs_regular |-> EmptyDict,
     over_time |-> EmptyDict]

\* Every row of the table has the return column of every window.
HasReturnColumns(df, ws) ==
    \A i \in DOMAIN df : Range(ws) \subseteq DOMAIN df[i].returns

----------------------------------------------------------------------------
(* analyze_transaction_impact: the call, on the table                       *)
(* calculate_post_transaction_returns returned.                             *)

\* A slip of CalculateCompleted: the analysis is started as soon as the
\* return calculator has started.
CalculateCompleted_started == pc # "start"

\* The script calls analyze_transaction_impact in the statement after the one
\* that calls calculate_post_transaction_returns: the call has returned.
CalculateCompleted == pc = "done"

\* The whole analysis.  The dict passed holds the classification of the
\* actors in known: a caller may pass the dict of another table.
AnalyzeImpact ==
    /\ an_pc = "start"
    /\ id_pc = "done"
    /\ CalculateCompleted
    /\ HasReturnColumns(result_df, windows) /\ Len(result_df) > 0
    /\ \E known \in SUBSET DOMAIN committee_members :
           LET dict == [n \in known |-> committee_members[n]]
               column == MapDict(result_df, dict)
               quarters == [i \in DOMAIN result_df |-> Quarter(result_df[i].date)]
           IN  /\ is_committee_dict' = dict
               /\ is_committee_column' = column
               /\ committee_mask' = CommitteeMask(column)
               /\ regular_mask' = RegularMask(column)
               /\ quarter' = quarters
               /\ results' =
                      [transaction_types |-> transaction_types(result_df, windows),
                       committee_vs_regular |->
                           committee_vs_regular(result_df, column, windows),
                       over_time |-> over_time(result_df, quarters, windows)]
    /\ an_pc' = "done"
    /\ UNCHANGED <<calc_vars, id_vars, rt_vars, car_vars, caller_vars>>

\* The whole analysis with the fields of the t test in the comparison of the
\* two groups.
AnalyzeImpactTested ==
    /\ an_pc = "start"
    /\ id_pc = "done"
    /\ CalculateCompleted
    /\ HasReturnColumns(result_df, windows) /\ Len(result_df) > 0
    /\ \E known \in SUBSET DOMAIN committee_members :
           LET dict == [n \in known |-> committee_members[n]]
               column == MapDict(result_df, dict)
               quarters == [i \in DOMAIN result_df |-> Quarter(result_df[i].date)]
           IN  /\ is_committee_dict' = dict
               /\ is_committee_column' = column
               /\ committee_mask' = CommitteeMask(column)
               /\ regular_mask' = RegularMask(column)
               /\ quarter' = quarters
               /\ results' =
                      [transaction_types |-> transaction_types(result_df, windows),
                       committee_vs_regular |->
                           committee_vs_regular_tested(result_df, column, windows),
                       over_time |-> over_time(result_df, quarters, windows)]
    /\ an_pc' = "done"
    /\ UNCHANGED <<calc_vars, id_vars, rt_vars, car_vars, caller_vars>>

\* The table has no return column (the return calculator met an empty
\* table): the is_committee column is added, then insider_df[...][col]
\* raises KeyError.
AnalyzeKeyError ==
    /\ an_pc = "start"
    /\ id_pc = "done"
    /\ CalculateCompleted
    /\ ~(HasReturnColumns(result_df, windows) /\ Len(result_df) > 0)
    /\ \E known \in SUBSET DOMAIN committee_members :
           LET dict == [n \in known |-> committee_members[n]]
           IN  /\ is_committee_dict' = dict
               /\ is_committee_column' = MapDict(result_df, dict)
    /\ an_pc' = "raised"
    /\ UNCHANGED <<quarter, committee_mask, regular_mask, results, calc_vars,
                   id_vars, rt_vars, car_vars, caller_vars>>

----------------------------------------------------------------------------
(* analyze_transaction_impact statement by statement, for the runs in which *)
(* other stages work on the same table at the same time: the two column     *)
(* writes to the table and the two groups of reads between them.            *)

\* results = {...}; insider_df['is_committee'] = insider_df['insider_name']
\* .map(is_committee_dict), with the dict of identify_committee_members.
AnalyzeAddCommittee ==
    /\ an_pc = "start"
    /\ id_pc = "done"
    /\ CalculateCompleted
    /\ HasReturnColumns(result_df, windows) /\ Len(result_df) > 0
    /\ is_committee_dict' = committee_members
    /\ is_committee_column' = MapDict(result_df, committee_members)
    /\ results' = EmptyResults
    /\ an_pc' = "types"
    /\ UNCHANGED <<quarter, committee_mask, regular_mask>>
    /\ UNCHANGED <<calc_vars, id_vars, rt_vars, car_vars, caller_vars>>

\* The loop over the transaction types and the comparison of the two groups,
\* which reads the column is_committee of the table.
AnalyzeGroups ==
    /\ an_pc = "types"
    /\ committee_mask' = CommitteeMask(is_committee_column)
    /\ regular_mask' = RegularMask(is_committee_column)
    /\ results' =
           [results EXCEPT
               !.transaction_types = transaction_types(result_df, windows),
               !.committee_vs_regular =
                   committee_vs_regular(result_df, is_committee_column, windows)]
    /\ an_pc' = "quarter"
    /\ UNCHANGED <<is_committee_dict, is_committee_column, quarter>>
    /\ UNCHANGED <<calc_vars, id_vars, rt_vars, car_vars, caller_vars>>

\* insider_df['quarter'] = insider_df['date'].dt.to_period('Q').astype(str)
AnalyzeAddQuarter ==
    /\ an_pc = "quarter"
    /\ quarter' = [i \in DOMAIN result_df |-> Quarter(result_df[i].date)]
    /\ an_pc' = "over_time"
    /\ UNCHANGED <<is_committee_dict, is_committee_column, committee_mask,
                   regular_mask, results>>
    /\ UNCHANGED <<calc_vars, id_vars, rt_vars, car_vars, caller_vars>>

\* The quarterly means, read from the column quarter of the table, and the
\* return of results.
AnalyzeOverTime ==
    /\ an_pc = "over_time"
    /\ results' = [results EXCEPT !.over_time = over_time(result_df, quarter, windows)]
    /\ an_pc' = "done"
    /\ UNCHANGED <<is_committee_dict, is_committee_column, quarter,
                   committee_mask, regular_mask>>
    /\ UNCHANGED <<calc_vars, id_vars, rt_vars, car_vars, caller_vars>>

\* The columns the table of analyze_transaction_impact has gained.
AddedColumns ==
    (IF is_committee_column = <<>> THEN {} ELSE {"is_committee"})
        \cup (IF quarter = <<>> THEN {} ELSE {"quarter"})

----------------------------------------------------------------------------
(* analyze_reaction_time, and the lag analysis of the front end. *)

\* lag_labels
lag_labels == <<"Same Day", "1 Day", "2 Days", "3 Days">>

\* A row of merged_df.
MergedRow(daily_return, sentiment) ==
    [DailyReturn |-> daily_return, AverageSentiment |-> sentiment]

\* merged_df['Average Sentiment'].shift(k), at position i: nan for the first
\* k rows.
Shift(df, k, i) == IF i - k < 1 THEN NaN ELSE df[i - k].AverageSentiment

\* The frame of the daily return and the sentiment of the same day and of
\* one, two and three rows before, as <<return, lag 0, ..., lag 3>>.
LagFrame(df) ==
    [i \in DOMAIN df |->
        <<df[i].DailyReturn, Shift(df, 0, i), Shift(df, 1, i), Shift(df, 2, i),
          Shift(df, 3, i)>>]

RECURSIVE DropNaFrom(_, _)
\* DataFrame.dropna(), from position i on: the rows without any missing
\* value, in order.
DropNaFrom(frame, i) ==
    IF i > Len(frame) THEN <<>>
    ELSE IF \E c \in DOMAIN frame[i] : IsNaN(frame[i][c])
         THEN DropNaFrom(frame, i + 1)
         ELSE <<frame[i]>> \o DropNaFrom(frame, i + 1)

\* The column c of the frame.
Column(frame, c) == [i \in DOMAIN frame |-> frame[i][c]]

\* Series.isna().all(): true of the empty column.
IsNaAll(col) == \A i \in DOMAIN col : IsNaN(col[i])

RECURSIVE ValidPairs(_, _, _)
\* The positions from i on at which both columns hold a value.
ValidPairs(x, y, i) ==
    IF i > Len(x) THEN <<>>
    ELSE IF IsNaN(x[i]) \/ IsNaN(y[i]) THEN ValidPairs(x, y, i + 1)
         ELSE <<i>> \o ValidPairs(x, y, i + 1)

RECURSIVE CrossFrom(_, _, _, _, _)
\* The sum of (x - mx) (y - my) over the pairs from position i on.
CrossFrom(x, y, mx, my, i) ==
    IF i > Len(x) THEN <<0, 1>>
    ELSE RatPlus(RatTimes(RatMinus(x[i], mx), RatMinus(y[i], my)),
                 CrossFrom(x, y, mx, my, i + 1))

\* Series.corr: Pearson's r = sxy / sqrt(sxx syy) over the pairs that hold
\* two values, nan without a pair or when sxx syy is zero.  r is held as
\* the float sign(r) * r^2, as a t statistic is.
corr(a, b) ==
    LET at == ValidPairs(a, b, 1)
        x == [k \in DOMAIN at |-> a[at[k]]]
        y == [k \in DOMAIN at |-> b[at[k]]]
    IN  IF Len(at) < 1 THEN NaN
        ELSE LET sxy == CrossFrom(x, y, Mean(x), Mean(y), 1)
                 sxx == CrossFrom(x, x, Mean(x), Mean(x), 1)
                 syy == CrossFrom(y, y, Mean(y), Mean(y), 1)
             IN  RatOver(RatTimes(sxy, <<Abs(sxy[1]), sxy[2]>>),
                         RatTimes(sxx, syy))

\* abs(a) > abs(b) on floats: false when either is nan.
AbsGreater(a, b) ==
    /\ ~IsNaN(a)
    /\ ~IsNaN(b)
    /\ RatLess(<<Abs(b[1]), b[2]>>, <<Abs(a[1]), a[2]>>)

RECURSIVE MaxByAbs(_, _, _)
\* max(correlations, key=abs), from position i on, as the position of the
\* element it returns: a later element replaces the best so far when its key
\* is greater.
MaxByAbs(list, i, best) ==
    IF i > Len(list) THEN best
    ELSE IF AbsGreater(list[i], list[best]) THEN MaxByAbs(list, i + 1, i)
         ELSE MaxByAbs(list, i + 1, best)

\* correlations.index(max_corr): the first position whose element is
\* max_corr itself or equals it (nan equals nothing).
IndexOf(list, at) ==
    CHOOSE j \in DOMAIN list :
        /\ j = at \/ (~IsNaN(list[j]) /\ list[j] = list[at])
        /\ \A k \in 1..(j - 1) :
               ~(k = at \/ (~IsNaN(list[k]) /\ list[k] = list[at]))

\* correlations.append(column.corr(...)) under its guard, or append(0).
Correlation(frame, c) ==
    IF ~IsNaAll(Column(frame, c)) /\ ~IsNaAll(Column(frame, 1))
    THEN corr(Column(frame, c), Column(frame, 1))
    ELSE <<0, 1>>

\* return None, None, None
NoReaction ==
    [none |-> TRUE, fig |-> <<>>, max_corr |-> NaN, max_lag_label |-> "None"]

\* The tuple (fig, max_corr, max_lag_label) for the list of correlations:
\* the figure is held as the heights of its bars.
ReactionOf(list) ==
    LET max_lag == IndexOf(list, MaxByAbs(list, 2, 1))
    IN  [none |-> FALSE, fig |-> list, max_corr |-> list[MaxByAbs(list, 2, 1)],
         max_lag_label |-> lag_labels[max_lag]]

\* analyze_reaction_time(merged_df)
AnalyzeReactionTime ==
    /\ rt_pc = "start"
    /\ \E frame \in {DropNaFrom(LagFrame(merged_df), 1)} :
           /\ lag_analysis' = frame
           /\ IF Len(frame) < 3
              THEN /\ correlations' = <<>>
                   /\ reaction' = NoReaction
              ELSE \E list \in {[k \in 1..4 |-> Correlation(frame, k + 1)]} :
                       /\ correlations' = list
                       /\ reaction' = ReactionOf(list)
    /\ rt_pc' = "done"
    /\ UNCHANGED <<merged_df, calc_vars, id_vars, an_vars, car_vars, caller_vars>>

\* The lag analysis of the front end's "Market Reaction Time Analysis" tab:
\* no check of the length, no guard on the correlations.
FrontendLagAnalysis ==
    /\ rt_pc = "start"
    /\ \E frame \in {DropNaFrom(LagFrame(merged_df), 1)} :
           /\ lag_analysis' = frame
           /\ \E list \in {[k \in 1..4 |->
                                corr(Column(frame, k + 1), Column(frame, 1))]} :
                  /\ correlations' = list
                  /\ reaction' = ReactionOf(list)
    /\ rt_pc' = "shown"
    /\ UNCHANGED <<merged_df, calc_vars, id_vars, an_vars, car_vars, caller_vars>>

----------------------------------------------------------------------------
(* create_reaction_time_chart: the cumulative return curve around the       *)
(* transactions of one type.  Positions in the price table count from 0, as *)
(* iloc does; the standard error of a point is held as its square.          *)

\* days_before = 5 and days_after = 15.
days_before == 5
days_after == 15

\* The fewest transactions of the type for which the chart is attempted.
MinFiltered == 5

\* The fewest curves from which the chart is drawn.
MinCurves == 3

\* insider_df[insider_df['transaction_type'] == transaction_type].copy()
FilterByType(df, type) == SelectSeq(df, LAMBDA e : e.transaction_type = type)

\* A slip of TooFewFiltered: four transactions of the type are enough.
TooFewFiltered_four(filtered) == Len(filtered) < MinFiltered - 1

\* len(filtered_df) < 5
TooFewFiltered(filtered) == Len(filtered) < MinFiltered

\* {date: i for i, date in enumerate(stock_df['Date'])}[date]: the last
\* position holding the date.
date_to_idx(dates, date) ==
    (CHOOSE i \in DOMAIN dates :
        dates[i] = date /\ \A j \in DOMAIN dates : dates[j] = date => j <= i) - 1

\* min((d for d in stock_df['Date'] if d >= txn_date), key=..., default=None)
chart_closest_date(dates, txn_date) == MinByKey(dates, txn_date, 1, None)

\* A slip of WindowMissing: a window that ends one row past the table passes.
WindowMissing_exclusive(idx, n) == idx < days_before \/ idx + days_after > n

\* idx < days_before or idx + days_after >= len(stock_df)
WindowMissing(idx, n) == idx < days_before \/ idx + days_after >= n

\* stock_df.iloc[idx - days_before:idx + days_after + 1]['Close'].values: a
\* slice stops at the end of the table.
daily_prices(stock, idx) ==
    LET first == idx - days_before + 1
        last == IF idx + days_after + 1 < Len(stock) THEN idx + days_after + 1
                ELSE Len(stock)
    IN  [i \in 1..(last - first + 1) |-> <<stock[first + i - 1].Close, 1>>]

\* a + b on numpy floats: nan with nan, inf - inf is nan.
FloatPlus(a, b) ==
    IF IsNaN(a) \/ IsNaN(b) THEN NaN
    ELSE IF a[2] = 0 THEN (IF b[2] = 0 /\ b # a THEN NaN ELSE a)
    ELSE IF b[2] = 0 THEN b
    ELSE RatPlus(a, b)

\* a * b on numpy floats, b a number other than 0.
FloatTimes(a, b) ==
    IF IsNaN(a) THEN NaN
    ELSE IF a[2] = 0 THEN (IF b[1] > 0 THEN a ELSE RatNeg(a))
    ELSE RatTimes(a, b)

\* (daily_prices[i] - daily_prices[i-1]) / daily_prices[i-1] * 100
daily_return(price, previous) ==
    FloatTimes(RatOver(RatMinus(price, previous), previous), <<100, 1>>)

\* [0.0] + daily_returns
daily_returns(prices) ==
    [i \in DOMAIN prices |->
        IF i = 1 THEN <<0, 1>> ELSE daily_return(prices[i], prices[i - 1])]

RECURSIVE cum_returns_compounded(_, _, _, _)
\* A slip of cum_returns: the returns are compounded, not added.
cum_returns_compounded(returns, i, cum_return, acc) ==
    IF i > Len(returns) THEN acc
    ELSE LET growth ==
                 RatTimes(RatPlus(<<1, 1>>, RatTimes(cum_return, <<1, 100>>)),
                          RatPlus(<<1, 1>>, RatTimes(returns[i], <<1, 100>>)))
             next == RatTimes(RatMinus(growth, <<1, 1>>), <<100, 1>>)
         IN  cum_returns_compounded(returns, i + 1, next, Append(acc, next))

RECURSIVE cum_returns(_, _, _, _)
\* The running sums of the daily returns from position i on, after the sum
\* cum_return and the sums acc of the positions before: cum_return +=
\* daily_return; cum_returns.append(cum_return).
cum_returns(returns, i, cum_return, acc) ==
    IF i > Len(returns) THEN acc
    ELSE LET next == FloatPlus(cum_return, returns[i])
         IN  cum_returns(returns, i + 1, next, Append(acc, next))

\* The body of the loop for one transaction: the curve it appends, or a
\* skip.  Nothing in the body raises: a comparison with a missing date is
\* False and numpy divides by zero without an exception.
ChartRowBody(stock, txn_date) ==
    LET dates == Dates(stock)
        closest == chart_closest_date(dates, txn_date)
    IN  IF closest = None \/ closest \notin Range(dates)
        THEN [skipped |-> TRUE, curve |-> <<>>]
        ELSE LET idx == date_to_idx(dates, closest)
             IN  IF WindowMissing(idx, Len(stock))
                 THEN [skipped |-> TRUE, curve |-> <<>>]
                 ELSE LET returns == daily_returns(daily_prices(stock, idx))
                      IN  [skipped |-> FALSE,
                           curve |-> cum_returns(returns, 1, <<0, 1>>, <<>>)]

\* A slip of TooFewCurves: two curves are enough.
TooFewCurves_two(data, count) == data = <<>> \/ count < MinCurves - 1

\* not car_data or transaction_count < 3
TooFewCurves(data, count) == data = <<>> \/ count < MinCurves

\* Whether every value is a number.
AllFinite(values) == \A i \in DOMAIN values : values[i][2] # 0

RECURSIVE FloatSumFrom(_, _)
\* The sum of the values from position i on.
FloatSumFrom(values, i) ==
    IF i > Len(values) THEN <<0, 1>>
    ELSE FloatPlus(values[i], FloatSumFrom(values, i + 1))

\* Point k of every curve of car_data.
PointsAt(data, k) == [j \in DOMAIN data |-> data[j][k]]

\* np.mean(car_data, axis=0)
avg_car(data) ==
    [k \in DOMAIN data[1] |->
        LET total == FloatSumFrom(PointsAt(data, k), 1)
        IN  IF total[2] = 0 THEN total ELSE RatTimes(total, <<1, Len(data)>>)]

\* The square of np.std(car_data, axis=0) / np.sqrt(len(car_data)): the
\* mean squared deviation over the number of curves.
std_car_squared(data) ==
    [k \in DOMAIN data[1] |->
        LET points == PointsAt(data, k)
        IN  IF ~AllFinite(points) THEN NaN
            ELSE RatTimes(SumSquaresFrom(points, Mean(points), 1),
                          <<1, Len(data) * Len(data)>>)]

\* list(range(-days_before, days_after + 1))
day_labels == [k \in 1..(days_before + days_after + 1) |-> k - 1 - days_before]

\* return None
NoChart == [none |-> TRUE, x |-> <<>>, y |-> <<>>, std_car_squared |-> <<>>]

\* The figure: the mean curve over day_labels, with its band.
Figure(data) ==
    [none |-> FALSE, x |-> day_labels, y |-> avg_car(data),
     std_car_squared |-> std_car_squared(data)]

\* The call up to the loop, on a table that has gained the columns of
\* columns since it was loaded: the filter by type copies the rows with
\* every column, fewer than 5 transactions return None, and otherwise
\* stock_df['Date'] = pd.to_datetime(stock_df['Date']) assigns the Date
\* column of the caller's price table.
ChartStartOn(table, columns) ==
    /\ car_pc = "start"
    /\ LET filtered == FilterByType(table, transaction_type)
       IN  /\ filtered_df' = filtered
           /\ filtered_columns' = columns
           /\ IF TooFewFiltered(filtered)
              THEN /\ car_pc' = "returned"
                   /\ UNCHANGED stock_date_assigned
              ELSE /\ car_pc' = "loop"
                   /\ stock_date_assigned' = TRUE
    /\ car_row' = 1
    /\ car_data' = <<>>
    /\ transaction_count' = 0
    /\ chart' = NoChart
    /\ UNCHANGED <<transaction_type, calc_vars, id_vars, an_vars, rt_vars, earlier>>

\* The call on the table of load_insider_data.
ChartStart == ChartStartOn(insider_df, {})

\* create_reaction_time_chart called on the table
\* calculate_post_transaction_returns returned.
ChartStartEnriched == pc = "done" /\ ChartStartOn(result_df, AddedColumns)

\* One turn of the loop over filtered_df.
ChartRow ==
    /\ car_pc = "loop"
    /\ car_row <= Len(filtered_df)
    /\ LET body == ChartRowBody(stock_df, filtered_df[car_row].date)
       IN  IF body.skipped
           THEN UNCHANGED <<car_data, transaction_count>>
           ELSE /\ car_data' = Append(car_data, body.curve)
                /\ transaction_count' = transaction_count + 1
    /\ car_row' = car_row + 1
    /\ UNCHANGED <<transaction_type, filtered_df, car_pc, chart, filtered_columns>>
    /\ UNCHANGED <<calc_vars, id_vars, an_vars, rt_vars, caller_vars>>

\* After the loop: None for too few curves, the figure otherwise.
ChartReturn ==
    /\ car_pc = "loop"
    /\ car_row > Len(filtered_df)
    /\ chart' = IF TooFewCurves(car_data, transaction_count)
                THEN NoChart ELSE Figure(car_data)
    /\ car_pc' = "returned"
    /\ UNCHANGED <<transaction_type, filtered_df, car_row, car_data,
                   transaction_count, filtered_columns>>
    /\ UNCHANGED <<calc_vars, id_vars, an_vars, rt_vars, caller_vars>>

----------------------------------------------------------------------------
(* The runs of the return calculator. *)

\* A price table over the trading days of cal with the closes of close.
PriceTable(cal, close) ==
    LET days == SortedSeq(cal)
    IN  [i \in DOMAIN days |-> [Date |-> days[i], Close |-> close[days[i]]]]

\* The price table of the windowed-return scenario.
ScenarioPrices ==
    << [Date |-> 1, Close |-> 100], [Date |-> 2, Close |-> 102],
       [Date |-> 3, Close |-> 99], [Date |-> 10, Close |-> 110] >>

PriceTables ==
    UNION {{PriceTable(cal, close) : close \in [cal -> PriceSet]} :
              cal \in SUBSET TradingDays}
    \cup {ScenarioPrices}

\* The event tables load_insider_data builds: pd.concat(..., ignore_index=
\* True) labels the rows 0, 1, 2, ...
EventTables ==
    UNION {{[i \in 1..n |-> EventRow(i - 1, dates[i], "X", NoText, "P")] :
               dates \in [1..n -> EventDays]} : n \in 0..MaxEvents}

\* The horizon lists of the return calculator's runs: horizons 1 and 9 in
\* either order, and horizon 9 alone.
WindowLists == {<<1, 9>>, <<9, 1>>, <<9>>}

\* identify_committee_members has not been called.
IdentifyIdle ==
    /\ committee_members = EmptyDict
    /\ id_pc = "idle"
    /\ id_pos = 0
    /\ committee_count = 0
    /\ regular_count = 0

\* analyze_transaction_impact has not been called.
AnalyzeIdle ==
    /\ is_committee_dict = EmptyDict
    /\ an_pc = "idle"
    /\ is_committee_column = <<>>
    /\ quarter = <<>>
    /\ committee_mask = <<>>
    /\ regular_mask = <<>>
    /\ results = EmptyResults

\* No lag analysis has been asked for.
ReactionIdle ==
    /\ merged_df = <<>>
    /\ rt_pc = "idle"
    /\ lag_analysis = <<>>
    /\ correlations = <<>>
    /\ reaction = NoReaction

\* create_reaction_time_chart has not been called.
ChartIdle ==
    /\ transaction_type = "Sale"
    /\ filtered_df = <<>>
    /\ car_pc = "idle"
    /\ car_row = 0
    /\ car_data = <<>>
    /\ transaction_count = 0
    /\ chart = NoChart
    /\ filtered_columns = {}

\* No earlier call is remembered.
NoEarlier == [calculate |-> <<>>, identify |-> <<>>, analyze |-> <<>>]

\* The caller's price table is as it was loaded and no function has been
\* called a second time.
CallerUntouched ==
    /\ stock_date_assigned = FALSE
    /\ earlier = NoEarlier

Init ==
    /\ stock_df \in PriceTables
    /\ insider_df \in EventTables
    /\ windows \in WindowLists
    /\ result_df = <<>>
    /\ pc = "start"
    /\ row = 0
    /\ closest_date = None
    /\ future_date = EmptyDict
    /\ success_count = 0
    /\ raised = FALSE
    /\ IdentifyIdle
    /\ AnalyzeIdle
    /\ ReactionIdle
    /\ ChartIdle
    /\ CallerUntouched

Next ==
    \/ ReturnEmpty
    \/ Prepare
    \/ ProcessRow
    \/ ReturnResult

Spec == Init /\ [][Next]_vars

----------------------------------------------------------------------------
(* What the claims speak of, read off the tables alone. *)

\* The dates of the price table.
TradingDates == Range(Dates(stock_df))

\* The close of the price table's row of day d.
CloseOn(d) == (CHOOSE r \in Range(stock_df) : r.Date = d).Close

Minimum(S) == CHOOSE x \in S : \A y \in S : x <= y

\* The earliest date of the price table that is >= d, None when there is none.
EarliestOnOrAfter(d) ==
    LET later == {x \in TradingDates : x >= d}
    IN  IF later = {} THEN None ELSE Minimum(later)

\* The earliest date of the price table in [a + h, a + h + (h + Buffer)),
\* None when there is none.
EarliestWithinBuffer(a, h) ==
    LET near == {x \in TradingDates : x >= a + h /\ x - (a + h) < h + Buffer}
    IN  IF near = {} THEN None ELSE Minimum(near)

\* The loop has processed a row: the locals are those of row - 1.
Processed == pc \in {"loop", "done"} /\ row >= 2

\* The call has returned from its loop.
Returned == pc = "done" /\ Len(insider_df) > 0 /\ Len(stock_df) > 0

\* The recorded return_{h}d of the row at position i.
Recorded(i, h) == result_df[i].returns[h]

----------------------------------------------------------------------------
(* C1: for every event date d the anchor day chosen is a date of the price  *)
(* table that is >= d, no earlier date of the table is >= d, and the event  *)
(* is left without an anchor only when the table has no date >= d.          *)
C1_AnchorIsEarliestOnOrAfter ==
    Processed =>
        LET d == result_df[row - 1].date
        IN  /\ closest_date # None =>
                  /\ closest_date \in TradingDates
                  /\ closest_date >= d
                  /\ \A x \in TradingDates : x >= d => closest_date <= x
            /\ closest_date = None => \A x \in TradingDates : x < d

\* An event between two trading days, with two later trading days to choose
\* from.
C1_Witness ==
    /\ Processed
    /\ closest_date # None
    /\ closest_date > result_df[row - 1].date
    /\ \E x \in TradingDates : x > closest_date
    /\ \E x \in TradingDates : x < result_df[row - 1].date

----------------------------------------------------------------------------
(* C2, as claimed: for every resolved anchor a and horizon h the target day *)
(* is the earliest price date >= a + h, and the return of the horizon is    *)
(* None only when the price table has no date >= a + h.  Read for anchors   *)
(* of a non-zero close: the zero close is C6's case.                        *)
C2_TargetIsEarliestOnOrAfter ==
    (Processed /\ closest_date # None /\ CloseOn(closest_date) # 0) =>
        /\ \A h \in DOMAIN future_date :
               future_date[h] = EarliestOnOrAfter(closest_date + h)
        /\ \A h \in Range(windows) :
               IsNaN(Recorded(row - 1, h)) =>
                   EarliestOnOrAfter(closest_date + h) = None

(* C2, amended: the target day is the earliest price date >= a + h when     *)
(* that date is less than h + 10 days past a + h, and there is no target    *)
(* otherwise; the return of the horizon is None only when there is no such  *)
(* date or the anchor's close is zero.                                      *)
C2_TargetIsEarliestWithinBuffer ==
    (Processed /\ closest_date # None) =>
        /\ \A h \in DOMAIN future_date :
               future_date[h] = EarliestWithinBuffer(closest_date, h)
        /\ CloseOn(closest_date) # 0 => DOMAIN future_date = Range(windows)
        /\ \A h \in Range(windows) :
               IsNaN(Recorded(row - 1, h)) =>
                   \/ EarliestWithinBuffer(closest_date, h) = None
                   \/ CloseOn(closest_date) = 0

\* For one horizon the first price date on or after a + h lies h + 10 days
\* or more past it and the horizon has no target; for another the target is
\* a later day than a + h.
C2_Witness ==
    /\ Processed
    /\ closest_date # None
    /\ CloseOn(closest_date) # 0
    /\ \E h \in DOMAIN future_date :
           /\ future_date[h] = None
           /\ EarliestOnOrAfter(closest_date + h) # None
    /\ \E h \in DOMAIN future_date :
           /\ future_date[h] # None
           /\ future_date[h] > closest_date + h

----------------------------------------------------------------------------
(* C3: whenever an event's anchor and a horizon's target both resolve and   *)
(* the anchor's close is not zero, the recorded return_{h}d is              *)
(* (price(target) - price(anchor)) / price(anchor) * 100; for the prices    *)
(* (1,100), (2,102), (3,99), (10,110), an event on day 1 and horizon 9 it   *)
(* is 10.0.                                                                 *)
C3_ReturnIsPercentChange ==
    Returned =>
        \A i \in DOMAIN result_df : \A h \in Range(windows) :
            LET anchor == EarliestOnOrAfter(result_df[i].date)
                target == EarliestWithinBuffer(anchor, h)
            IN  /\ (anchor # None /\ target # None /\ CloseOn(anchor) # 0) =>
                       Recorded(i, h) =
                           Rat((CloseOn(target) - CloseOn(anchor)) * 100,
                               CloseOn(anchor))
                /\ (stock_df = ScenarioPrices /\ result_df[i].date = 1 /\ h = 9)
                       => Recorded(i, h) = <<10, 1>>

\* The scenario has run: anchor day 1, horizon 9, target day 10.
C3_Witness ==
    /\ Returned
    /\ stock_df = ScenarioPrices
    /\ windows = <<9>>
    /\ Len(insider_df) = 1
    /\ insider_df[1].date = 1
    /\ closest_date = 1
    /\ future_date[9] = 10

----------------------------------------------------------------------------
(* C4: for every event later than the last date of the price table the call *)
(* raises nothing and leaves the return of every requested horizon None.    *)
C4_NoAnchorLeavesEveryHorizonNone ==
    /\ ~raised
    /\ Returned =>
           \A i \in DOMAIN result_df :
               (\A x \in TradingDates : x < result_df[i].date) =>
                   \A h \in Range(windows) :
                       /\ h \in DOMAIN result_df[i].returns
                       /\ IsNaN(Recorded(i, h))

\* An event after the last price date, processed after an event whose
\* return was computed.
C4_Witness ==
    /\ Returned
    /\ Len(result_df) = 2
    /\ \A x \in TradingDates : x < result_df[2].date
    /\ \E h \in Range(windows) : ~IsNaN(Recorded(1, h))

----------------------------------------------------------------------------
(* C5: within one event the horizons are computed independently: the return *)
(* recorded for a horizon of the list is the one the calculator records for *)
(* that horizon asked alone, and it is computed whenever its target         *)
(* resolves, whether or not another horizon of the list produced a result   *)
(* and whatever the order of the list.                                      *)

\* return_{h}d of the row at position i when h is the only horizon asked.
AloneReturn(i, h) ==
    RowBody(AddReturnColumns(insider_df, <<h>>), stock_df, <<h>>, i, 0)
        .df[i].returns[h]

C5_HorizonsAreIndependent ==
    Returned =>
        \A i \in DOMAIN result_df : \A h \in Range(windows) :
            LET anchor == EarliestOnOrAfter(result_df[i].date)
            IN  /\ Recorded(i, h) = AloneReturn(i, h)
                /\ ( /\ anchor # None
                     /\ CloseOn(anchor) # 0
                     /\ EarliestWithinBuffer(anchor, h) # None )
                       => ~IsNaN(Recorded(i, h))

\* The first horizon of the list has no result and the second has one.
C5_Witness ==
    /\ Returned
    /\ Len(windows) = 2
    /\ \E i \in DOMAIN result_df :
           /\ IsNaN(Recorded(i, windows[1]))
           /\ ~IsNaN(Recorded(i, windows[2]))

----------------------------------------------------------------------------
(* C6: when the close of the anchor day is zero, every horizon of that      *)
(* event is recorded as None, no exception reaches the caller, and the      *)
(* returns of the other events are still computed.                          *)
C6_ZeroBasePriceYieldsNone ==
    /\ ~raised
    /\ Returned =>
           \A i \in DOMAIN result_df : \A h \in Range(windows) :
               LET anchor == EarliestOnOrAfter(result_df[i].date)
               IN  /\ (anchor # None /\ CloseOn(anchor) = 0)
                          => IsNaN(Recorded(i, h))
                   /\ ( /\ anchor # None
                        /\ CloseOn(anchor) # 0
                        /\ EarliestWithinBuffer(anchor, h) # None )
                          => ~IsNaN(Recorded(i, h))

\* The first event's anchor closes at zero and one of its targets resolves;
\* the second event's return is computed after it.
C6_Witness ==
    /\ Returned
    /\ Len(result_df) = 2
    /\ LET anchor == EarliestOnOrAfter(result_df[1].date)
       IN  /\ anchor # None
           /\ CloseOn(anchor) = 0
           /\ \E h \in Range(windows) : EarliestWithinBuffer(anchor, h) # None
    /\ \E h \in Range(windows) : ~IsNaN(Recorded(2, h))

----------------------------------------------------------------------------
(* The runs of the classifier. *)

Director == <<"D", "i", "r", "e", "c", "t", "o", "r">>
CFO == <<"C", "F", "O">>
BoardMember == <<"B", "O", "A", "R", "D", " ", "m", "e", "m", "b", "e", "r">>
Dir == <<"D", "i", "r">>

\* The relationship texts of the classifier's runs: a keyword, a text with
\* no keyword, a keyword in capitals inside a longer text, a text that is
\* only the beginning of a keyword, and the missing text.
RelationshipTexts == {Director, CFO, BoardMember, Dir, NoText}

InsiderNames == {"X", "Y"}

ClassifierTables ==
    UNION {{[i \in 1..n |-> EventRow(i - 1, 1, names[i], rels[i], "P")] :
               <<names, rels>> \in [1..n -> InsiderNames]
                                   \X [1..n -> RelationshipTexts]} :
              n \in 0..MaxRows}

\* calculate_post_transaction_returns has not been called.
CalculateIdle ==
    /\ stock_df = <<>>
    /\ windows = <<>>
    /\ result_df = <<>>
    /\ pc = "idle"
    /\ row = 0
    /\ closest_date = None
    /\ future_date = EmptyDict
    /\ success_count = 0
    /\ raised = FALSE

InitClassify ==
    /\ insider_df \in ClassifierTables
    /\ CalculateIdle
    /\ committee_members = EmptyDict
    /\ id_pc = "start"
    /\ id_pos = 0
    /\ committee_count = 0
    /\ regular_count = 0
    /\ AnalyzeIdle
    /\ ReactionIdle
    /\ ChartIdle
    /\ CallerUntouched

NextClassify ==
    \/ IdentifyStart
    \/ IdentifyInsider
    \/ IdentifyReturn

SpecClassify == InitClassify /\ [][NextClassify]_vars

----------------------------------------------------------------------------
(* What the classifier's claims speak of. *)

\* The actors of the event table.
Actors == {insider_df[i].insider_name : i \in DOMAIN insider_df}

\* The relationship texts on the records of actor n, the missing ones left out.
TextsOf(n) ==
    {insider_df[i].relationship : i \in {j \in DOMAIN insider_df :
        /\ insider_df[j].insider_name = n
        /\ insider_df[j].relationship # NoText}}

\* The text holds a keyword as a substring, letter case aside.
HoldsKeyword(text) ==
    \E k \in DOMAIN committee_keywords :
        LET kw == committee_keywords[k]
        IN  \E off \in 0..(Len(text) - Len(kw)) :
                \A j \in 1..Len(kw) : LowerChar(kw[j]) = LowerChar(text[off + j])

\* The permutations of the positions 1..n.
RowOrders(n) ==
    {p \in [1..n -> 1..n] : \A i, j \in 1..n : p[i] = p[j] => i = j}

----------------------------------------------------------------------------
(* C7: an actor is classified Primary (True) if and only if at least one of *)
(* the non-missing relationship texts on its records holds a keyword as a   *)
(* substring, letter case aside, and Other (False) otherwise; the texts     *)
(* "Director" and "CFO" give Primary, "CFO" alone gives Other.              *)
C7_PrimaryIffSomeTextHoldsKeyword ==
    id_pc = "done" =>
        \A n \in Actors :
            /\ n \in DOMAIN committee_members
            /\ committee_members[n] = (\E t \in TextsOf(n) : HoldsKeyword(t))
            /\ TextsOf(n) = {Director, CFO} => committee_members[n] = TRUE
            /\ TextsOf(n) = {CFO} => committee_members[n] = FALSE

\* Actor X carries "CFO" and then "Director", actor Y "CFO" alone.
C7_Witness ==
    /\ id_pc = "done"
    /\ Len(insider_df) = 3
    /\ TextsOf("X") = {Director, CFO}
    /\ TextsOf("Y") = {CFO}
    /\ \E i \in DOMAIN insider_df :
           /\ insider_df[i].relationship = CFO
           /\ insider_df[i].insider_name = "X"
           /\ \A j \in 1..(i - 1) : insider_df[j].insider_name # "X"

----------------------------------------------------------------------------
(* C8: the mapping identify_committee_members returns is the same for every *)
(* permutation of the rows of the event table.                              *)
C8_InvariantUnderRowPermutation ==
    id_pc = "done" =>
        \A p \in RowOrders(Len(insider_df)) :
            identify_committee_members(
                [i \in DOMAIN insider_df |-> insider_df[p[i]]])
              = committee_members

\* An actor whose first record holds no keyword and whose later record
\* holds one, after another actor's record.
C8_Witness ==
    /\ id_pc = "done"
    /\ \E i, j \in DOMAIN insider_df :
           /\ 1 < i
           /\ i < j
           /\ insider_df[1].insider_name # insider_df[i].insider_name
           /\ insider_df[i].insider_name = insider_df[j].insider_name
           /\ insider_df[i].relationship # NoText
           /\ ~HoldsKeyword(insider_df[i].relationship)
           /\ HoldsKeyword(insider_df[j].relationship)

----------------------------------------------------------------------------
(* The runs of the analysis: the insider section of the application, which  *)
(* classifies the actors, computes the returns and analyses them.           *)

\* The price table of the analysis' runs.
ImpactPrices ==
    << [Date |-> 1, Close |-> 100], [Date |-> 2, Close |-> 110],
       [Date |-> 10, Close |-> 110], [Date |-> 11, Close |-> 55],
       [Date |-> 100, Close |-> 110], [Date |-> 101, Close |-> 55] >>

\* The kinds of rows of the event table: a director's purchases and sales,
\* an officer's sales, and records without relationship or transaction type.
RowKinds ==
    << EventRow(0, 1, "X", Director, "P"),
       EventRow(0, 100, "X", BoardMember, "S"),
       EventRow(0, 2, "Y", CFO, "S"),
       EventRow(0, 1, "Z", NoText, NoType) >>

RECURSIVE Stack(_, _)
\* copies[k] rows of kind k, for the kinds from k on.
Stack(copies, k) ==
    IF k > Len(RowKinds) THEN <<>>
    ELSE [i \in 1..copies[k] |-> RowKinds[k]] \o Stack(copies, k + 1)

\* The table of the given numbers of copies, labelled 0, 1, 2, ... as
\* load_insider_data labels it.
ImpactTable(copies) ==
    LET rows == Stack(copies, 1)
    IN  [i \in DOMAIN rows |-> [rows[i] EXCEPT !.idx = i - 1]]

InitImpact ==
    /\ stock_df = ImpactPrices
    /\ insider_df \in {ImpactTable(copies) :
                          copies \in [DOMAIN RowKinds -> 0..MaxCopies]}
    /\ windows = <<1, 9>>
    /\ result_df = <<>>
    /\ pc = "start"
    /\ row = 0
    /\ closest_date = None
    /\ future_date = EmptyDict
    /\ success_count = 0
    /\ raised = FALSE
    /\ committee_members = EmptyDict
    /\ id_pc = "start"
    /\ id_pos = 0
    /\ committee_count = 0
    /\ regular_count = 0
    /\ is_committee_dict = EmptyDict
    /\ an_pc = "start"
    /\ is_committee_column = <<>>
    /\ quarter = <<>>
    /\ committee_mask = <<>>
    /\ regular_mask = <<>>
    /\ results = EmptyResults
    /\ ReactionIdle
    /\ ChartIdle
    /\ CallerUntouched

\* The order of the application: identify_committee_members, then
\* calculate_post_transaction_returns, then analyze_transaction_impact.
NextImpact ==
    \/ IdentifyStart
    \/ IdentifyInsider
    \/ IdentifyReturn
    \/ (id_pc = "done" /\ ReturnEmpty)
    \/ (id_pc = "done" /\ Prepare)
    \/ ProcessRow
    \/ ReturnResult
    \/ AnalyzeImpact
    \/ AnalyzeKeyError

SpecImpact == InitImpact /\ [][NextImpact]_vars

----------------------------------------------------------------------------
(* What the analysis' claims speak of. *)

\* The dict classifies the actor of the row at position i as committee.
IsCommitteeRow(i) ==
    /\ result_df[i].insider_name \in DOMAIN is_committee_dict
    /\ is_committee_dict[result_df[i].insider_name]

\* The rows of the group that hold a return for horizon h.
WithReturn(group, h) == {i \in group : ~IsNaN(Recorded(i, h))}

RECURSIVE TotalOver(_, _)
\* The sum of the returns for horizon h of the rows of the set.
TotalOver(rows, h) ==
    IF rows = {} THEN <<0, 1>>
    ELSE LET i == CHOOSE j \in rows : TRUE
         IN  RatAdd(Recorded(i, h), TotalOver(rows \ {i}, h))

\* The mean of the returns for horizon h of the rows of the (non-empty) set.
MeanOver(rows, h) ==
    LET total == TotalOver(rows, h)
    IN  Rat(total[1], total[2] * Cardinality(rows))

\* The k-th smallest return for horizon h among the rows of the set: fewer
\* than k rows lie below it and at least k do not lie above it.
KthSmallest(rows, h, k) ==
    CHOOSE v \in {Recorded(i, h) : i \in rows} :
        /\ Cardinality({i \in rows : RatLess(Recorded(i, h), v)}) < k
        /\ Cardinality({i \in rows : ~RatLess(v, Recorded(i, h))}) >= k

\* The median of the returns for horizon h of the rows of the (non-empty) set.
MedianOver(rows, h) ==
    LET n == Cardinality(rows)
    IN  IF n % 2 = 1 THEN KthSmallest(rows, h, (n + 1) \div 2)
        ELSE LET low == KthSmallest(rows, h, n \div 2)
                 high == KthSmallest(rows, h, n \div 2 + 1)
                 both == RatAdd(low, high)
             IN  Rat(both[1], both[2] * 2)

\* mean, median and count are those of the returns for horizon h of the rows.
SummaryIsOver(mean, median, count, rows, h) ==
    /\ count >= 5
    /\ count = Cardinality(rows)
    /\ mean = MeanOver(rows, h)
    /\ median = MedianOver(rows, h)

----------------------------------------------------------------------------
(* C9: every actor of the event table has exactly one classification:       *)
(* identify_committee_members returns one entry per distinct insider_name,  *)
(* and in analyze_transaction_impact every row falls in exactly one of the  *)
(* committee and regular groups, the rows of actors missing from the        *)
(* mapping in the regular one.                                              *)
C9_EveryActorHasOneClass ==
    /\ id_pc = "done" =>
           /\ DOMAIN committee_members = Actors
           /\ \A n \in Actors : committee_members[n] \in BOOLEAN
    /\ an_pc = "done" =>
           \A i \in DOMAIN result_df :
               /\ committee_mask[i] # regular_mask[i]
               /\ committee_mask[i] = IsCommitteeRow(i)
               /\ result_df[i].insider_name \notin DOMAIN is_committee_dict
                      => regular_mask[i]

\* The analysis has run with a mapping that lacks one actor of the table and
\* classifies another as committee.
C9_Witness ==
    /\ an_pc = "done"
    /\ \E i, j \in DOMAIN result_df :
           /\ result_df[i].insider_name \notin DOMAIN is_committee_dict
           /\ committee_mask[j]

----------------------------------------------------------------------------
(* C10: every (group, horizon) summary analyze_transaction_impact emits has *)
(* count >= 5, and its mean, median and count are those of exactly the      *)
(* non-None returns of that group at that horizon.                          *)
C10_SummariesOverAtLeastFive ==
    an_pc = "done" =>
        /\ \A t \in DOMAIN results.transaction_types :
               \A h \in DOMAIN results.transaction_types[t] :
                   LET summary == results.transaction_types[t][h]
                       group == {i \in DOMAIN result_df :
                                    result_df[i].transaction_type = t}
                   IN  SummaryIsOver(summary.mean, summary.median,
                                     summary.count, WithReturn(group, h), h)
        /\ \A h \in DOMAIN results.committee_vs_regular :
               LET summary == results.committee_vs_regular[h]
                   committee == {i \in DOMAIN result_df : IsCommitteeRow(i)}
                   regular == {i \in DOMAIN result_df : ~IsCommitteeRow(i)}
               IN  /\ SummaryIsOver(summary.committee_mean,
                                    summary.committee_median,
                                    summary.committee_count,
                                    WithReturn(committee, h), h)
                   /\ SummaryIsOver(summary.regular_mean,
                                    summary.regular_median,
                                    summary.regular_count,
                                    WithReturn(regular, h), h)

\* A transaction type is summarised at one horizon with a mean that differs
\* from its median and suppressed at the other, where four of its rows hold
\* a return; the committee and regular groups are summarised too.
C10_Witness ==
    /\ an_pc = "done"
    /\ DOMAIN results.committee_vs_regular # {}
    /\ \E t \in DOMAIN results.transaction_types :
           /\ 1 \in DOMAIN results.transaction_types[t]
           /\ 9 \notin DOMAIN results.transaction_types[t]
           /\ results.transaction_types[t][1].mean
                  # results.transaction_types[t][1].median
           /\ Cardinality(WithReturn({i \in DOMAIN result_df :
                  result_df[i].transaction_type = t}, 9)) = 4

----------------------------------------------------------------------------
(* C11, as the code has it: for each transaction type and each horizon,     *)
(* analyze_transaction_impact reports mean, median and count for every type *)
(* that has at least 5 non-None returns at that horizon; for the committee  *)
(* and regular actor classes it reports the two groups' mean, median and    *)
(* count at a horizon whenever both groups have at least 5 non-None returns *)
(* at that horizon.                                                         *)

\* The rows of transaction type t.
RowsOfType(t) == {i \in DOMAIN result_df : result_df[i].transaction_type = t}

\* The transaction types of the table: the values that are not missing.
TypesOfTable == {result_df[i].transaction_type : i \in DOMAIN result_df} \ {NoType}

\* The rows of the committee group and of the regular group.
CommitteeRows == {i \in DOMAIN result_df : IsCommitteeRow(i)}
RegularRows == {i \in DOMAIN result_df : ~IsCommitteeRow(i)}

\* The type summary of t at horizon h is reported and is that of the type's
\* returns.
TypeReported(t, h) ==
    /\ t \in DOMAIN results.transaction_types
    /\ h \in DOMAIN results.transaction_types[t]
    /\ SummaryIsOver(results.transaction_types[t][h].mean,
                     results.transaction_types[t][h].median,
                     results.transaction_types[t][h].count,
                     WithReturn(RowsOfType(t), h), h)

\* The committee summary at horizon h is reported.
CommitteeReported(h) ==
    /\ h \in DOMAIN results.committee_vs_regular
    /\ SummaryIsOver(results.committee_vs_regular[h].committee_mean,
                     results.committee_vs_regular[h].committee_median,
                     results.committee_vs_regular[h].committee_count,
                     WithReturn(CommitteeRows, h), h)

\* The regular summary at horizon h is reported.
RegularReported(h) ==
    /\ h \in DOMAIN results.committee_vs_regular
    /\ SummaryIsOver(results.committee_vs_regular[h].regular_mean,
                     results.committee_vs_regular[h].regular_median,
                     results.committee_vs_regular[h].regular_count,
                     WithReturn(RegularRows, h), h)

C11_GroupsWithFiveAreReported ==
    an_pc = "done" =>
        \A h \in Range(windows) :
            /\ \A t \in TypesOfTable :
                   Cardinality(WithReturn(RowsOfType(t), h)) >= 5
                       => TypeReported(t, h)
            /\ (/\ Cardinality(WithReturn(CommitteeRows, h)) >= 5
                /\ Cardinality(WithReturn(RegularRows, h)) >= 5)
                   => CommitteeReported(h) /\ RegularReported(h)

\* C11 as stated: for each grouping key (transaction type, or committee or
\* regular actor class) and each horizon, mean, median and count are
\* reported for every group that has at least 5 non-None returns at that
\* horizon.
C11_EveryGroupWithFiveIsReported ==
    an_pc = "done" =>
        \A h \in Range(windows) :
            /\ \A t \in TypesOfTable :
                   Cardinality(WithReturn(RowsOfType(t), h)) >= 5
                       => TypeReported(t, h)
            /\ Cardinality(WithReturn(CommitteeRows, h)) >= 5
                   => CommitteeReported(h)
            /\ Cardinality(WithReturn(RegularRows, h)) >= 5
                   => RegularReported(h)

\* A type of exactly five transactions, all with a return, is reported at
\* one horizon, and both classes are reported there.
C11_Witness ==
    /\ an_pc = "done"
    /\ \E t \in TypesOfTable :
           /\ Cardinality(RowsOfType(t)) = 5
           /\ Cardinality(WithReturn(RowsOfType(t), 1)) = 5
           /\ TypeReported(t, 1)
    /\ CommitteeReported(1) /\ RegularReported(1)

----------------------------------------------------------------------------
(* C12: for each horizon, the committee-vs-regular significance result is   *)
(* absent whenever either group has fewer than 5 non-None returns at that   *)
(* horizon, and present whenever both have at least 5.                      *)
C12_ComparisonIffBothHaveFive ==
    an_pc = "done" =>
        \A h \in Range(windows) :
            h \in DOMAIN results.committee_vs_regular
                <=> (/\ Cardinality(WithReturn(CommitteeRows, h)) >= 5
                     /\ Cardinality(WithReturn(RegularRows, h)) >= 5)

\* The comparison is present at one horizon and absent at the other, where
\* the committee group has 4 returns and the regular group more than 5.
C12_Witness ==
    /\ an_pc = "done"
    /\ 1 \in DOMAIN results.committee_vs_regular
    /\ 9 \notin DOMAIN results.committee_vs_regular
    /\ Cardinality(WithReturn(CommitteeRows, 9)) = 4
    /\ Cardinality(WithReturn(RegularRows, 9)) > 5

----------------------------------------------------------------------------
(* The runs of the comparison of the two groups: analyze_transaction_impact *)
(* on the table calculate_post_transaction_returns returned for a director  *)
(* and an officer whose events have returns of 0, 1 and 3 percent.          *)

\* The largest number of events of one actor.
MaxGroup == 6

\* The price table: the day after day 1 the close is unchanged, the day
\* after day 10 it is 1 percent up, the day after day 20 it is 3 percent up.
ComparePrices ==
    << [Date |-> 1, Close |-> 100], [Date |-> 2, Close |-> 100],
       [Date |-> 10, Close |-> 100], [Date |-> 11, Close |-> 101],
       [Date |-> 20, Close |-> 100], [Date |-> 21, Close |-> 103] >>

\* The days of the events.
CompareDays == <<1, 10, 20>>

\* The numbers of events of one actor on each of the days: from one event
\* fewer than the smallest sample up to MaxGroup events in all.
GroupCounts ==
    {c \in [DOMAIN CompareDays -> 0..MaxGroup] :
        /\ c[1] + c[2] + c[3] >= MinSample - 1
        /\ c[1] + c[2] + c[3] <= MaxGroup}

RECURSIVE GroupRows(_, _, _, _)
\* counts[k] events of the actor on day CompareDays[k], for the days from k
\* on.
GroupRows(name, rel, counts, k) ==
    IF k > Len(CompareDays) THEN <<>>
    ELSE [i \in 1..counts[k] |-> EventRow(0, CompareDays[k], name, rel, "P")]
             \o GroupRows(name, rel, counts, k + 1)

\* The table of the director's and the officer's events, labelled 0, 1,
\* 2, ... as load_insider_data labels it.
CompareTable(cx, cy) ==
    LET rows == GroupRows("X", Director, cx, 1) \o GroupRows("Y", CFO, cy, 1)
    IN  [i \in DOMAIN rows |-> [rows[i] EXCEPT !.idx = i - 1]]

\* identify_committee_members and calculate_post_transaction_returns have
\* returned; analyze_transaction_impact has not been called.
InitCompare ==
    /\ stock_df = ComparePrices
    /\ insider_df \in {CompareTable(cx, cy) : cx \in GroupCounts, cy \in GroupCounts}
    /\ windows = <<1>>
    /\ \E out \in {calculate_post_transaction_returns(insider_df, stock_df, windows)} :
           /\ result_df = out.df
           /\ closest_date = out.closest
           /\ future_date = out.future
           /\ success_count = out.success
    /\ pc = "done"
    /\ row = Len(insider_df) + 1
    /\ raised = FALSE
    /\ committee_members = identify_committee_members(insider_df)
    /\ id_pc = "done"
    /\ id_pos = Len(UniqueInsiders(insider_df)) + 1
    /\ committee_count =
           Cardinality({n \in DOMAIN committee_members : committee_members[n]})
    /\ regular_count =
           Cardinality({n \in DOMAIN committee_members : ~committee_members[n]})
    /\ is_committee_dict = EmptyDict
    /\ an_pc = "start"
    /\ is_committee_column = <<>>
    /\ quarter = <<>>
    /\ committee_mask = <<>>
    /\ regular_mask = <<>>
    /\ results = EmptyResults
    /\ ReactionIdle
    /\ ChartIdle
    /\ stock_date_assigned = TRUE
    /\ earlier = NoEarlier

NextCompare == AnalyzeImpactTested

SpecCompare == InitCompare /\ [][NextCompare]_vars

----------------------------------------------------------------------------
(* What the comparison's claims speak of. *)

RECURSIVE SquaresOver(_, _)
\* The sum of the squares of the returns for horizon h of the rows of the set.
SquaresOver(rows, h) ==
    IF rows = {} THEN <<0, 1>>
    ELSE LET i == CHOOSE j \in rows : TRUE
         IN  RatPlus(RatTimes(Recorded(i, h), Recorded(i, h)),
                     SquaresOver(rows \ {i}, h))

\* The sample variance of the returns for horizon h of the rows of the set
\* (two rows or more): (n * sum of squares - square of the sum) / (n (n - 1)).
VarianceOver(rows, h) ==
    LET n == Cardinality(rows)
        total == TotalOver(rows, h)
    IN  RatTimes(RatMinus(RatTimes(<<n, 1>>, SquaresOver(rows, h)),
                          RatTimes(total, total)),
                 <<1, n * (n - 1)>>)

\* mean_a - mean_b for the groups a and b at horizon h.
MeanDifference(a, b, h) ==
    RatMinus(MeanOver(WithReturn(a, h), h), MeanOver(WithReturn(b, h), h))

\* var_a / n_a + var_b / n_b, with separately estimated variances.
SeparateVariances(a, b, h) ==
    LET ra == WithReturn(a, h)
        rb == WithReturn(b, h)
    IN  RatPlus(RatTimes(VarianceOver(ra, h), <<1, Cardinality(ra)>>),
                RatTimes(VarianceOver(rb, h), <<1, Cardinality(rb)>>))

\* The same with the one variance pooled over both groups.
PooledVariance(a, b, h) ==
    LET ra == WithReturn(a, h)
        rb == WithReturn(b, h)
        na == Cardinality(ra)
        nb == Cardinality(rb)
        pooled == RatTimes(RatPlus(RatTimes(<<na - 1, 1>>, VarianceOver(ra, h)),
                                   RatTimes(<<nb - 1, 1>>, VarianceOver(rb, h))),
                           <<1, na + nb - 2>>)
    IN  RatPlus(RatTimes(pooled, <<1, na>>), RatTimes(pooled, <<1, nb>>))

\* x / sqrt(v) for v > 0, as the model holds a t statistic: sign(x) x^2 / v.
OverRoot(x, v) ==
    RatTimes(RatTimes(x, <<Abs(x[1]), x[2]>>), <<v[2], v[1]>>)

----------------------------------------------------------------------------
(* C13: the t statistic reported by the group comparison is the Welch       *)
(* statistic (mean_a - mean_b) / sqrt(var_a / n_a + var_b / n_b) with       *)
(* separately estimated sample variances, wherever that quotient is         *)
(* defined, and it is the pooled-variance statistic only where the two      *)
(* statistics are equal.                                                    *)
C13_StatisticIsWelch ==
    an_pc = "done" =>
        \A h \in DOMAIN results.committee_vs_regular :
            LET d == MeanDifference(CommitteeRows, RegularRows, h)
                separate == SeparateVariances(CommitteeRows, RegularRows, h)
                pooled == PooledVariance(CommitteeRows, RegularRows, h)
                t == results.committee_vs_regular[h].t_statistic
            IN  separate[1] # 0 =>
                    /\ t = OverRoot(d, separate)
                    /\ (pooled[1] # 0 /\ t = OverRoot(d, pooled))
                           => OverRoot(d, pooled) = OverRoot(d, separate)

\* A comparison of groups of different sizes and different variances, for
\* which the Welch statistic is not zero and differs from the pooled one.
C13_Witness ==
    /\ an_pc = "done"
    /\ 1 \in DOMAIN results.committee_vs_regular
    /\ results.committee_vs_regular[1].committee_count
           # results.committee_vs_regular[1].regular_count
    /\ results.committee_vs_regular[1].t_statistic[1] # 0
    /\ results.committee_vs_regular[1].t_statistic[2] # 0
    /\ PooledVariance(CommitteeRows, RegularRows, 1)[1] # 0
    /\ results.committee_vs_regular[1].t_statistic
           # OverRoot(MeanDifference(CommitteeRows, RegularRows, 1),
                      PooledVariance(CommitteeRows, RegularRows, 1))

----------------------------------------------------------------------------
(* C14: swapping the two groups of the comparison (exchanging which actors  *)
(* are committee and which are regular) negates t_statistic, leaves p_value *)
(* and the significant flag unchanged, and exchanges the two groups' means  *)
(* and counts.                                                              *)

\* The dict that classifies as committee exactly the actors the dict of the
\* call leaves regular.
SwappedDict ==
    [n \in {result_df[i].insider_name : i \in DOMAIN result_df} |->
        ~(n \in DOMAIN is_committee_dict /\ is_committee_dict[n])]

\* The comparison analyze_transaction_impact makes under the swapped dict.
SwappedComparison ==
    committee_vs_regular_tested(result_df, MapDict(result_df, SwappedDict),
                                windows)

C14_SwapNegatesStatistic ==
    an_pc = "done" =>
        \A swapped \in {SwappedComparison} :
            /\ DOMAIN swapped = DOMAIN results.committee_vs_regular
            /\ \A h \in DOMAIN swapped :
                   LET given == results.committee_vs_regular[h]
                   IN  /\ swapped[h].t_statistic = RatNeg(given.t_statistic)
                       /\ swapped[h].p_value = given.p_value
                       /\ swapped[h].significant_diff = given.significant_diff
                       /\ swapped[h].committee_mean = given.regular_mean
                       /\ swapped[h].regular_mean = given.committee_mean
                       /\ swapped[h].committee_count = given.regular_count
                       /\ swapped[h].regular_count = given.committee_count

\* A comparison of groups of different sizes and different means, with a t
\* statistic that is a number other than zero.
C14_Witness ==
    /\ an_pc = "done"
    /\ 1 \in DOMAIN results.committee_vs_regular
    /\ results.committee_vs_regular[1].t_statistic[2] # 0
    /\ RatLess(results.committee_vs_regular[1].t_statistic, <<0, 1>>)
    /\ results.committee_vs_regular[1].committee_count
           # results.committee_vs_regular[1].regular_count
    /\ SwappedComparison[1].t_statistic
           # results.committee_vs_regular[1].t_statistic

----------------------------------------------------------------------------
(* The runs of the lag analysis: merged_df as prepare_sentiment_data builds *)
(* it, the daily return missing on the first of several rows, and at most   *)
(* one day's sentiment missing.                                             *)

\* The largest number of rows of merged_df.
MaxDays == 6

\* The daily returns and the sentiment scores of the runs.
ReactionValues == {<<0, 1>>, <<1, 1>>}

\* The columns of daily returns of n rows: pct_change() leaves the first of
\* several rows without a return, and a single row has the return 0.
ReturnColumns(n) ==
    {c \in [1..n -> ReactionValues \cup {NaN}] :
        /\ n > 1 => IsNaN(c[1])
        /\ n = 1 => c[1] = <<0, 1>>
        /\ \A i \in 2..n : ~IsNaN(c[i])}

\* The columns of sentiment of n rows.
SentimentColumns(n) ==
    {c \in [1..n -> ReactionValues \cup {NaN}] :
        Cardinality({i \in 1..n : IsNaN(c[i])}) <= 1}

ReactionTables ==
    UNION {{[i \in 1..n |-> MergedRow(r[i], v[i])] :
               r \in ReturnColumns(n), v \in SentimentColumns(n)} :
           n \in 0..MaxDays}

InitReaction ==
    /\ merged_df \in ReactionTables
    /\ rt_pc = "start"
    /\ lag_analysis = <<>>
    /\ correlations = <<>>
    /\ reaction = NoReaction
    /\ insider_df = <<>>
    /\ CalculateIdle
    /\ IdentifyIdle
    /\ AnalyzeIdle
    /\ ChartIdle
    /\ CallerUntouched

NextReaction ==
    \/ AnalyzeReactionTime
    \/ FrontendLagAnalysis

SpecReaction == InitReaction /\ [][NextReaction]_vars

----------------------------------------------------------------------------
(* What the lag analysis' claims speak of. *)

\* The rows t at which the sentiment L rows before and the return are both
\* defined.
PairedRows(L) ==
    {t \in DOMAIN merged_df :
        /\ t - L >= 1
        /\ ~IsNaN(merged_df[t - L].AverageSentiment)
        /\ ~IsNaN(merged_df[t].DailyReturn)}

RECURSIVE SumOfProducts(_, _, _, _)
\* The sum over the rows t of the set of signal[t - L]^p * return[t]^q, for
\* p and q in 0..2.
SumOfProducts(rows, L, p, q) ==
    IF rows = {} THEN <<0, 1>>
    ELSE LET t == CHOOSE u \in rows : TRUE
             x == merged_df[t - L].AverageSentiment
             y == merged_df[t].DailyReturn
             xp == IF p = 0 THEN <<1, 1>> ELSE IF p = 1 THEN x ELSE RatTimes(x, x)
             yq == IF q = 0 THEN <<1, 1>> ELSE IF q = 1 THEN y ELSE RatTimes(y, y)
         IN  RatPlus(RatTimes(xp, yq), SumOfProducts(rows \ {t}, L, p, q))

\* Pearson's correlation of signal[t - L] with return[t] over the rows of
\* PairedRows(L), as the model holds a correlation: with n the number of
\* rows, (n Sxy - Sx Sy) / sqrt((n Sxx - Sx^2) (n Syy - Sy^2)).
PairwiseCorrelation(L) ==
    LET rows == PairedRows(L)
        n == <<Cardinality(rows), 1>>
        sx == SumOfProducts(rows, L, 1, 0)
        sy == SumOfProducts(rows, L, 0, 1)
        cov == RatMinus(RatTimes(n, SumOfProducts(rows, L, 1, 1)),
                        RatTimes(sx, sy))
        vx == RatMinus(RatTimes(n, SumOfProducts(rows, L, 2, 0)),
                       RatTimes(sx, sx))
        vy == RatMinus(RatTimes(n, SumOfProducts(rows, L, 0, 2)),
                       RatTimes(sy, sy))
    IN  RatOver(RatTimes(cov, <<Abs(cov[1]), cov[2]>>), RatTimes(vx, vy))

\* The lag whose label the lag analysis reports.
ReportedLag ==
    CHOOSE L \in 0..3 : lag_labels[L + 1] = reaction.max_lag_label

----------------------------------------------------------------------------
(* C15: for each lag L in 0..3, the lag analysis correlates signal[t - L]   *)
(* with return[t] over all rows t where that lag's shifted signal and the   *)
(* return are both defined: a row that misses only a deeper lag's signal is *)
(* still used for the shallower lags.                                       *)
C15_LagsCorrelatePairwise ==
    rt_pc \in {"done", "shown"} =>
        \A L \in 0..3 :
            Cardinality(PairedRows(L)) >= 3 =>
                /\ ~reaction.none
                /\ reaction.fig[L + 1] = PairwiseCorrelation(L)

----------------------------------------------------------------------------
(* C16: when fewer than 3 paired points remain for a lag,                   *)
(* analyze_reaction_time still returns a result, in which that lag's        *)
(* correlation is 0.0 and is marked as insufficient data.                   *)
C16_FewPairsGiveFlaggedZero ==
    rt_pc = "done" =>
        \A L \in 0..3 :
            Cardinality(PairedRows(L)) < 3 =>
                /\ ~reaction.none
                /\ reaction.fig[L + 1] = <<0, 1>>
                /\ "insufficient_data" \in DOMAIN reaction

----------------------------------------------------------------------------
(* C17: the lag the analysis reports is the one whose correlation has the   *)
(* maximal absolute value among lags 0..3, the smallest such lag when       *)
(* several share that value, whatever their signs.                          *)
C17_BestLagIsSmallestOfMaximalAbs ==
    (rt_pc \in {"done", "shown"} /\ ~reaction.none
        /\ \E L \in 0..3 : ~IsNaN(reaction.fig[L + 1])) =>
        LET best == reaction.fig[ReportedLag + 1]
        IN  /\ reaction.max_corr = best
            /\ ~IsNaN(best)
            /\ \A L \in 0..3 :
                   ~IsNaN(reaction.fig[L + 1]) =>
                       /\ ~AbsGreater(reaction.fig[L + 1], best)
                       /\ L < ReportedLag => AbsGreater(best, reaction.fig[L + 1])

----------------------------------------------------------------------------
(* The runs of create_reaction_time_chart. *)

\* The most transactions of a table.
MaxTransactions == 6

\* The price table: one row more than a window on either side of the two
\* positions that have a whole window; the trading days are consecutive
\* but for the day after the first days_before of them.
ChartDates ==
    [i \in 1..(days_before + days_after + 2) |->
        IF i <= days_before THEN i ELSE i + 1]

\* The closes of the price table: 100 and 200 in turn, or 100 up to the
\* first position with a whole window and 200 after it.
ClosePatterns ==
    {[i \in DOMAIN ChartDates |-> IF i % 2 = 1 THEN 100 ELSE 200],
     [i \in DOMAIN ChartDates |-> IF i <= days_before + 1 THEN 100 ELSE 200]}

ChartPrices(closes) ==
    [i \in DOMAIN ChartDates |-> [Date |-> ChartDates[i], Close |-> closes[i]]]

\* The kinds of transaction of a table: sales on the last day without
\* days_before rows before it, on the missing day, whose anchor is the first
\* position with a whole window, on the last day with a whole window, on the
\* first day without days_after rows after it and on a day after the last
\* price; purchases on the missing day.
ChartKinds ==
    << <<"Sale", days_before>>, <<"Sale", days_before + 1>>,
       <<"Sale", days_before + 3>>, <<"Sale", days_before + 4>>,
       <<"Sale", days_before + days_after + 10>>,
       <<"Purchase", days_before + 1>> >>

RECURSIVE TotalFrom(_, _)
TotalFrom(counts, k) ==
    IF k > Len(counts) THEN 0 ELSE counts[k] + TotalFrom(counts, k + 1)

\* The numbers of transactions of each kind: from one transaction fewer than
\* the chart needs up to MaxTransactions in all.
ChartCounts ==
    {c \in [DOMAIN ChartKinds -> 0..MaxTransactions] :
        TotalFrom(c, 1) \in (MinFiltered - 1)..MaxTransactions}

RECURSIVE ChartRows(_, _)
\* counts[k] transactions of kind ChartKinds[k], for the kinds from k on.
ChartRows(counts, k) ==
    IF k > Len(ChartKinds) THEN <<>>
    ELSE [i \in 1..counts[k] |->
             EventRow(0, ChartKinds[k][2], "X", NoText, ChartKinds[k][1])]
             \o ChartRows(counts, k + 1)

\* The event table, labelled 0, 1, 2, ... as load_insider_data labels it.
ChartTable(counts) ==
    LET rows == ChartRows(counts, 1)
    IN  [i \in DOMAIN rows |-> [rows[i] EXCEPT !.idx = i - 1]]

\* A call of create_reaction_time_chart on the tables of load_insider_data.
InitChart ==
    /\ insider_df \in {ChartTable(counts) : counts \in ChartCounts}
    /\ stock_df \in {ChartPrices(closes) : closes \in ClosePatterns}
    /\ transaction_type \in {"Sale", "Purchase"}
    /\ filtered_df = <<>>
    /\ car_pc = "start"
    /\ car_row = 0
    /\ car_data = <<>>
    /\ transaction_count = 0
    /\ chart = NoChart
    /\ windows = <<>>
    /\ result_df = <<>>
    /\ pc = "idle"
    /\ row = 0
    /\ closest_date = None
    /\ future_date = EmptyDict
    /\ success_count = 0
    /\ raised = FALSE
    /\ IdentifyIdle
    /\ AnalyzeIdle
    /\ ReactionIdle
    /\ filtered_columns = {}
    /\ CallerUntouched

NextChart ==
    \/ ChartStart
    \/ ChartRow
    \/ ChartReturn

SpecChart == InitChart /\ [][NextChart]_vars

----------------------------------------------------------------------------
(* What the chart's claims speak of, read off the tables alone. *)

\* The position, counted from 1, of the first trading day on or after the
\* transaction's date, or 0 when there is none.
AnchorPosition(e) ==
    LET later == {i \in DOMAIN stock_df : stock_df[i].Date >= e.date}
    IN  IF later = {} THEN 0
        ELSE CHOOSE i \in later :
                 \A j \in later : stock_df[i].Date < stock_df[j].Date \/ i <= j

\* The anchor resolves, at least days_before rows of the price table come
\* before it and at least days_after rows after it.
HasWindow(e) ==
    \E p \in {AnchorPosition(e)} :
        /\ p # 0
        /\ p - 1 >= days_before
        /\ Len(stock_df) - p >= days_after

\* The transactions the loop has gone through, and those of them with a
\* window.
GoneThrough == SubSeq(filtered_df, 1, car_row - 1)

QualifyingSoFar == SelectSeq(GoneThrough, HasWindow)

\* The simple percentage return of window day i of the window around
\* position p: the close of that day against the close of the day before.
SimpleReturn(p, i) ==
    LET close == stock_df[p - days_before + i].Close
        before == stock_df[p - days_before + i - 1].Close
    IN  Rat((close - before) * 100, before)

RECURSIVE PlainSums(_, _, _)
\* The sums of the simple returns of window days 1..i, for i from 0 to
\* days_before + days_after, after those of sums for i below k.
PlainSums(p, k, sums) ==
    IF k > days_before + days_after THEN sums
    ELSE PlainSums(p, k + 1, Append(sums, RatPlus(sums[k], SimpleReturn(p, k))))

\* The transactions of the requested type that have a window.
QualifyingOfType ==
    SelectSeq(FilterByType(insider_df, transaction_type), HasWindow)

----------------------------------------------------------------------------
----------------------------------------------------------------------------
(* C19: every curve of car_data has days_before + days_after + 1 points,    *)
(* the first 0.0 and point k the plain sum of the daily simple percentage   *)
(* returns of window days 1..k; the offsets of a drawn curve run from       *)
(* -days_before to days_after.                                              *)
C19_CurveIsRunningSumOfSimpleReturns ==
    /\ \A qualifying \in {QualifyingSoFar} :
       \A j \in DOMAIN car_data :
           /\ Len(car_data[j]) = days_before + days_after + 1
           /\ car_data[j][1] = <<0, 1>>
           /\ \A sums \in {PlainSums(AnchorPosition(qualifying[j]), 1, <<<<0, 1>>>>)} :
              \A k \in 1..(days_before + days_after) :
                  car_data[j][k + 1] = sums[k + 1]
    /\ ~chart.none =>
           /\ chart.x = [k \in 1..(days_before + days_after + 1) |-> k - 1 - days_before]
           /\ Len(chart.y) = Len(chart.x)

\* A curve has been drawn from curves that rise and fall.
C19_Witness ==
    /\ ~chart.none
    /\ \E j \in DOMAIN car_data :
           \E k \in 2..(days_before + days_after) :
               /\ RatLess(car_data[j][k], car_data[j][k + 1])
               /\ RatLess(car_data[j][k], car_data[j][k - 1])

----------------------------------------------------------------------------
(* C20: create_reaction_time_chart returns None whenever fewer than 3       *)
(* transactions of the requested type have a window, however many of that   *)
(* type the table holds.                                                    *)
C20_FewerThanThreeCurvesGiveNone ==
    (car_pc = "returned" /\ Len(QualifyingOfType) < 3) => chart.none

\* The call has returned None over five or more transactions of the type,
\* two of them with a window.
C20_Witness ==
    /\ car_pc = "returned"
    /\ Len(filtered_df) >= 5
    /\ Len(QualifyingOfType) = 2
    /\ chart.none

----------------------------------------------------------------------------
(* C21: create_reaction_time_chart returns a curve exactly when the table   *)
(* holds at least 5 transactions of the requested type and at least 3 of    *)
(* them have a window; with fewer than 5 of the type it returns None        *)
(* however many have a window.                                              *)
C21_CurveIffFiveOfTypeAndThreeQualify ==
    car_pc = "returned" =>
        (~chart.none <=>
            /\ Len(FilterByType(insider_df, transaction_type)) >= 5
            /\ Len(QualifyingOfType) >= 3)

\* C21 as stated: a curve is returned whenever at least 3 transactions of
\* the requested type have a window.
C21_ThreeQualifyingGiveCurve ==
    (car_pc = "returned" /\ Len(QualifyingOfType) >= 3) => ~chart.none

\* A curve has been returned from exactly three transactions with a window.
C21_Witness ==
    /\ car_pc = "returned"
    /\ Len(QualifyingOfType) = 3
    /\ Len(filtered_df) > 3
    /\ ~chart.none

----------------------------------------------------------------------------
(* C22: whatever calls have been made, the price table and the event table  *)
(* the caller passed in are as the caller left them: no column of them has  *)
(* been assigned and none has been added.                                   *)
C22_CallerTablesUnchanged ==
    /\ ~stock_date_assigned
    /\ is_committee_column = <<>>
    /\ quarter = <<>>

----------------------------------------------------------------------------
(* The runs of the three consumers of the enriched table, at the same time. *)

\* The tables: transactions on the two days with a window, one too late for
\* it and one purchase, MaxTransactions in all.
ConcurrentCounts ==
    {c \in ChartCounts :
        /\ c[1] = 0 /\ c[4] = 1 /\ c[5] = 0 /\ c[6] = 1
        /\ TotalFrom(c, 1) = MaxTransactions}

\* The table of returns and sentiment of the lag analysis.
ConcurrentMerged ==
    << MergedRow(NaN, <<0, 1>>), MergedRow(<<0, 1>>, <<1, 1>>),
       MergedRow(<<1, 1>>, <<0, 1>>), MergedRow(<<0, 1>>, <<1, 1>>),
       MergedRow(<<1, 1>>, <<1, 1>>), MergedRow(<<1, 1>>, <<0, 1>>),
       MergedRow(<<0, 1>>, <<0, 1>>) >>

\* identify_committee_members and calculate_post_transaction_returns have
\* returned; the three consumers have not started.
InitConcurrent ==
    /\ insider_df \in {ChartTable(counts) : counts \in ConcurrentCounts}
    /\ stock_df \in {ChartPrices(closes) : closes \in ClosePatterns}
    /\ windows = <<1>>
    /\ \E out \in {calculate_post_transaction_returns(insider_df, stock_df, windows)} :
           /\ result_df = out.df
           /\ closest_date = out.closest
           /\ future_date = out.future
           /\ success_count = out.success
    /\ pc = "done"
    /\ row = Len(insider_df) + 1
    /\ raised = FALSE
    /\ committee_members = identify_committee_members(insider_df)
    /\ id_pc = "done"
    /\ id_pos = 0
    /\ committee_count = 0
    /\ regular_count = 0
    /\ is_committee_dict = EmptyDict
    /\ an_pc = "start"
    /\ is_committee_column = <<>>
    /\ quarter = <<>>
    /\ committee_mask = <<>>
    /\ regular_mask = <<>>
    /\ results = EmptyResults
    /\ merged_df = ConcurrentMerged
    /\ rt_pc = "start"
    /\ lag_analysis = <<>>
    /\ correlations = <<>>
    /\ reaction = NoReaction
    /\ transaction_type = "Sale"
    /\ filtered_df = <<>>
    /\ car_pc = "start"
    /\ car_row = 0
    /\ car_data = <<>>
    /\ transaction_count = 0
    /\ chart = NoChart
    /\ filtered_columns = {}
    /\ stock_date_assigned = TRUE
    /\ earlier = NoEarlier

\* Any interleaving of the statements of the three consumers.
NextConcurrent ==
    \/ AnalyzeAddCommittee
    \/ AnalyzeGroups
    \/ AnalyzeAddQuarter
    \/ AnalyzeOverTime
    \/ AnalyzeReactionTime
    \/ ChartStartEnriched
    \/ ChartRow
    \/ ChartReturn

SpecConcurrent == InitConcurrent /\ [][NextConcurrent]_vars

\* What analyze_transaction_impact returns when it runs alone.
SequentialResults ==
    [transaction_types |-> transaction_types(result_df, windows),
     committee_vs_regular |->
         committee_vs_regular(result_df, MapDict(result_df, committee_members),
                              windows),
     over_time |->
         over_time(result_df, [i \in DOMAIN result_df |-> Quarter(result_df[i].date)],
                   windows)]

\* What analyze_reaction_time returns when it runs alone.
SequentialReaction ==
    LET frame == DropNaFrom(LagFrame(merged_df), 1)
    IN  IF Len(frame) < 3 THEN NoReaction
        ELSE ReactionOf([k \in 1..4 |-> Correlation(frame, k + 1)])

RECURSIVE CurvesFrom(_, _)
\* The curves of the transactions of the table from position i on.
CurvesFrom(filtered, i) ==
    IF i > Len(filtered) THEN <<>>
    ELSE LET body == ChartRowBody(stock_df, filtered[i].date)
         IN  (IF body.skipped THEN <<>> ELSE <<body.curve>>)
                 \o CurvesFrom(filtered, i + 1)

\* What create_reaction_time_chart returns when it runs alone.
SequentialChart ==
    LET filtered == FilterByType(result_df, transaction_type)
        curves == CurvesFrom(filtered, 1)
    IN  IF TooFewFiltered(filtered) \/ TooFewCurves(curves, Len(curves))
        THEN NoChart ELSE Figure(curves)

----------------------------------------------------------------------------
(* C23: with the three consumers interleaved in any way, each returns what  *)
(* it returns when it runs alone, and the chart's copy of the table holds   *)
(* no column written by another consumer.                                   *)
C23_ConsumersDoNotObserveEachOther ==
    /\ an_pc = "done" => results = SequentialResults
    /\ rt_pc = "done" => reaction = SequentialReaction
    /\ car_pc = "returned" => chart = SequentialChart
    /\ filtered_columns = {}

----------------------------------------------------------------------------
(* The runs in which the caller calls a function a second time with the     *)
(* arguments of the first call: the same tables, as the calls so far have   *)
(* left them.  The locals of a new call are unbound; they are left as they  *)
(* were, for the function to assign before it reads them.                   *)

\* calculate_post_transaction_returns is called again with insider_df,
\* stock_df and windows, once the analysis has worked on its result.
CalculateAgain ==
    /\ pc = "done"
    /\ an_pc # "start"
    /\ earlier.calculate = <<>>
    /\ earlier' = [earlier EXCEPT !.calculate =
                      <<[result_df |-> result_df, success_count |-> success_count,
                         raised |-> raised]>>]
    /\ pc' = "start"
    /\ UNCHANGED <<stock_df, insider_df, windows, result_df, row, closest_date,
                   future_date, success_count, raised>>
    /\ UNCHANGED <<id_vars, an_vars, rt_vars, car_vars, stock_date_assigned>>

\* identify_committee_members is called again with insider_df, once the
\* analysis has used its result.
IdentifyAgain ==
    /\ id_pc = "done"
    /\ an_pc # "start"
    /\ earlier.identify = <<>>
    /\ earlier' = [earlier EXCEPT !.identify = <<committee_members>>]
    /\ id_pc' = "start"
    /\ UNCHANGED <<committee_members, id_pos, committee_count, regular_count>>
    /\ UNCHANGED <<calc_vars, an_vars, rt_vars, car_vars, stock_date_assigned>>

\* analyze_transaction_impact is called again with the table it has worked
\* on, which holds the columns it added.
AnalyzeAgain ==
    /\ an_pc \in {"done", "raised"}
    /\ earlier.analyze = <<>>
    /\ earlier' = [earlier EXCEPT !.analyze =
                      <<[is_committee_dict |-> is_committee_dict, an_pc |-> an_pc,
                         results |-> results]>>]
    /\ an_pc' = "start"
    /\ UNCHANGED <<is_committee_dict, is_committee_column, quarter,
                   committee_mask, regular_mask, results>>
    /\ UNCHANGED <<calc_vars, id_vars, rt_vars, car_vars, stock_date_assigned>>

\* The numbers of copies of the kinds of rows: MaxCopies rows of each of at
\* most two kinds.
TwiceCopies ==
    {c \in [DOMAIN RowKinds -> {0, MaxCopies}] :
        Cardinality({k \in DOMAIN RowKinds : c[k] # 0}) <= 2}

InitTwice ==
    /\ stock_df = ImpactPrices
    /\ insider_df \in {ImpactTable(copies) : copies \in TwiceCopies}
    /\ windows = <<1, 9>>
    /\ result_df = <<>>
    /\ pc = "start"
    /\ row = 0
    /\ closest_date = None
    /\ future_date = EmptyDict
    /\ success_count = 0
    /\ raised = FALSE
    /\ committee_members = EmptyDict
    /\ id_pc = "start"
    /\ id_pos = 0
    /\ committee_count = 0
    /\ regular_count = 0
    /\ is_committee_dict = EmptyDict
    /\ an_pc = "start"
    /\ is_committee_column = <<>>
    /\ quarter = <<>>
    /\ committee_mask = <<>>
    /\ regular_mask = <<>>
    /\ results = EmptyResults
    /\ ReactionIdle
    /\ ChartIdle
    /\ CallerUntouched

\* The order of the application, and each function called once more.
NextTwice ==
    \/ NextImpact
    \/ CalculateAgain
    \/ IdentifyAgain
    \/ AnalyzeAgain

SpecTwice == InitTwice /\ [][NextTwice]_vars

----------------------------------------------------------------------------
(* C24: a second call of calculate_post_transaction_returns, of             *)
(* identify_committee_members or of analyze_transaction_impact with the     *)
(* arguments of the first, on the very tables the earlier calls have worked *)
(* on, returns what the first call returned (and reports the same count of  *)
(* returns calculated).                                                     *)
C24_SecondCallReturnsTheSame ==
    /\ (pc = "done" /\ earlier.calculate # <<>>) =>
           /\ result_df = earlier.calculate[1].result_df
           /\ success_count = earlier.calculate[1].success_count
           /\ raised = earlier.calculate[1].raised
    /\ (id_pc = "done" /\ earlier.identify # <<>>) =>
           committee_members = earlier.identify[1]
    /\ (an_pc \in {"done", "raised"} /\ earlier.analyze # <<>>
            /\ is_committee_dict = earlier.analyze[1].is_committee_dict) =>
           /\ an_pc = earlier.analyze[1].an_pc
           /\ results = earlier.analyze[1].results

\* All three functions have returned a second time, with returns calculated
\* and statistics reported.
C24_Witness ==
    /\ pc = "done" /\ earlier.calculate # <<>>
    /\ id_pc = "done" /\ earlier.identify # <<>>
    /\ an_pc = "done" /\ earlier.analyze # <<>>
    /\ is_committee_dict = earlier.analyze[1].is_committee_dict
    /\ success_count > 0
    /\ DOMAIN results.transaction_types # {}
    /\ is_committee_column # <<>>

----------------------------------------------------------------------------
(* C25: in every run of the analysis flow analyze_transaction_impact starts *)
(* only after calculate_post_transaction_returns has completed for all      *)
(* events and all horizons, and it reads only the return columns that call  *)
(* produced: once the analysis has started the calculator has returned, the *)
(* table is the one the whole call yields for the event table, the price    *)
(* table and the windows, and the results are the aggregates of that        *)
(* table's return columns for those windows.                                *)
C25_AnalysisStartsAfterCalculator ==
    an_pc # "start" =>
        /\ pc = "done"
        /\ \A whole \in {calculate_post_transaction_returns(insider_df, stock_df,
                                                            windows)} :
               /\ result_df = whole.df
               /\ success_count = whole.success
               /\ an_pc = "done" =>
                      /\ results.transaction_types =
                             transaction_types(whole.df, windows)
                      /\ results.committee_vs_regular =
                             committee_vs_regular(whole.df, is_committee_column,
                                                  windows)
                      /\ results.over_time =
                             over_time(whole.df, quarter, windows)

\* The analysis has run on a table of which the calculator went through
\* every row, with returns recorded and a group summarised.
C25_Witness ==
    /\ an_pc = "done"
    /\ row > Len(insider_df)
    /\ success_count >= 2
    /\ results.transaction_types # EmptyDict

----------------------------------------------------------------------------
(* C27: when both compared groups have at least 5 returns but zero variance *)
(* (all values identical within each group), the significance result for    *)
(* that horizon is absent or carries neutral values; t_statistic and        *)
(* p_value are never NaN or infinite in an emitted result.                  *)

\* Both groups hold at least 5 returns for horizon h, all of one value
\* within each group.
BothGroupsConstant(h) ==
    /\ Cardinality(WithReturn(CommitteeRows, h)) >= 5
    /\ Cardinality(WithReturn(RegularRows, h)) >= 5
    /\ VarianceOver(WithReturn(CommitteeRows, h), h)[1] = 0
    /\ VarianceOver(WithReturn(RegularRows, h), h)[1] = 0

\* The t statistic is neither NaN nor infinite, and the p value measures the
\* tail beyond such a statistic.
FiniteSignificance(entry) ==
    /\ entry.t_statistic[2] # 0
    /\ entry.p_value.beyond[2] # 0

C27_ZeroVarianceGivesNoNaN ==
    an_pc = "done" =>
        /\ \A h \in DOMAIN results.committee_vs_regular :
               FiniteSignificance(results.committee_vs_regular[h])
        /\ \A h \in Range(windows) :
               BothGroupsConstant(h) =>
                   \/ h \notin DOMAIN results.committee_vs_regular
                   \/ /\ FiniteSignificance(results.committee_vs_regular[h])
                      /\ results.committee_vs_regular[h].t_statistic[1] = 0

----------------------------------------------------------------------------
(* C28: when the signal (or the return) series is constant over the rows    *)
(* used for a lag, analyze_reaction_time reports a neutral, non-NaN         *)
(* correlation for that lag, and the reported best lag and maximal          *)
(* correlation are never NaN: a result of analyze_reaction_time holds no    *)
(* NaN among its four correlations, and its maximal correlation is the      *)
(* non-NaN correlation of the lag it reports.                               *)
C28_ConstantSeriesGiveNoNaN ==
    (rt_pc = "done" /\ ~reaction.none) =>
        /\ \A L \in 0..3 : ~IsNaN(reaction.fig[L + 1])
        /\ ~IsNaN(reaction.max_corr)
        /\ ~IsNaN(reaction.fig[ReportedLag + 1])

----------------------------------------------------------------------------
(* C29: calculate_post_transaction_returns computes return_{h}d only if     *)
(* some price-series date d satisfies anchor + h days <= d and              *)
(* d - (anchor + h days) < (h + 10) days; if the first price date on or     *)
(* after anchor + h lies h + 10 days or more past it, the return stays None *)
(* even though later price dates exist.                                     *)
C29_ReturnOnlyWithinBuffer ==
    (Processed /\ closest_date # None) =>
        \A h \in Range(windows) :
            /\ ~IsNaN(Recorded(row - 1, h)) =>
                   \E d \in TradingDates :
                       /\ closest_date + h <= d
                       /\ d - (closest_date + h) < h + Buffer
            /\ \A first \in {EarliestOnOrAfter(closest_date + h)} :
                   (first # None /\ first - (closest_date + h) >= h + Buffer)
                       => IsNaN(Recorded(row - 1, h))

\* For one horizon the price table holds a date after anchor + h, the first
\* of them h + 10 days or more past it, and the return is None; another
\* horizon of the same event has its return.
C29_Witness ==
    /\ Processed
    /\ closest_date # None
    /\ \E h \in Range(windows) :
           /\ EarliestOnOrAfter(closest_date + h) # None
           /\ EarliestOnOrAfter(closest_date + h) - (closest_date + h)
                  >= h + Buffer
           /\ IsNaN(Recorded(row - 1, h))
    /\ \E h \in Range(windows) : ~IsNaN(Recorded(row - 1, h))

----------------------------------------------------------------------------
(* The runs of calculate_post_transaction_returns and                       *)
(* create_reaction_time_chart on the tables a caller can hand them: the     *)
(* price table as pd.read_csv reads stock_prices.csv, in the order and with *)
(* the repetitions of the file, and an event table with the labels of its   *)
(* index as they are, pd.concat(..., ignore_index=True) or not.             *)

\* The days of the small price files.
DirectDays == {1, 2, 3}

\* The price files of up to MaxRows rows: any days in any order, the close
\* 10 higher from row to row.
DirectPriceTables ==
    UNION {{[i \in 1..n |-> [Date |-> days[i], Close |-> 90 + 10 * i]] :
               days \in [1..n -> DirectDays]} : n \in 0..MaxRows}

\* The days of the events: the first day of the files and a day after the
\* last.
DirectEventDays == {1, 4}

\* The event tables of up to MaxEvents rows, labelled 0, 1, 2, ... or with
\* the label 0 on every row.
DirectEventTables ==
    UNION {{[i \in 1..n |->
                EventRow(IF shared THEN 0 ELSE i - 1, dates[i], "X", NoText, "P")] :
               dates \in [1..n -> DirectEventDays], shared \in BOOLEAN} :
              n \in 0..MaxEvents}

\* The price table of the chart's runs with the two rows that can anchor a
\* whole window exchanged, and with the date of the first of them on both.
DirectChartPrices ==
    LET table == ChartPrices([i \in DOMAIN ChartDates |->
                                 IF i % 2 = 1 THEN 100 ELSE 200])
        a == days_before + 1
        b == days_before + 2
    IN  {[table EXCEPT ![a] = table[b], ![b] = table[a]],
         [table EXCEPT ![b].Date = table[a].Date]}

\* The smallest number of sales the chart works on, all on the day missing
\* from the price table.
DirectChartTable ==
    ChartTable([k \in DOMAIN ChartKinds |-> IF k = 2 THEN MinFiltered ELSE 0])

\* Neither function has been called; both are called with the same tables.
InitDirect ==
    /\ \/ /\ stock_df \in DirectPriceTables
          /\ insider_df \in DirectEventTables
       \/ /\ stock_df \in DirectChartPrices
          /\ insider_df \in {DirectChartTable, <<>>}
    /\ windows = <<1>>
    /\ result_df = <<>>
    /\ pc = "start"
    /\ row = 0
    /\ closest_date = None
    /\ future_date = EmptyDict
    /\ success_count = 0
    /\ raised = FALSE
    /\ transaction_type = "Sale"
    /\ filtered_df = <<>>
    /\ car_pc = "start"
    /\ car_row = 0
    /\ car_data = <<>>
    /\ transaction_count = 0
    /\ chart = NoChart
    /\ filtered_columns = {}
    /\ IdentifyIdle
    /\ AnalyzeIdle
    /\ ReactionIdle
    /\ CallerUntouched

NextDirect ==
    \/ ReturnEmpty
    \/ Prepare
    \/ ProcessRow
    \/ ReturnResult
    \/ ChartStart
    \/ ChartRow
    \/ ChartReturn

SpecDirect == InitDirect /\ [][NextDirect]_vars

\* The dates of the price table are not strictly increasing: a date is
\* repeated or comes before an earlier row's date.
MalformedPriceSeries ==
    \E i, j \in DOMAIN stock_df : i < j /\ stock_df[i].Date >= stock_df[j].Date

\* The input the engine is to refuse.
InvalidInput == MalformedPriceSeries \/ Len(insider_df) = 0

----------------------------------------------------------------------------
(* C26: a price series with duplicate or out-of-order dates, and an empty   *)
(* event table, make calculate_post_transaction_returns and                 *)
(* create_reaction_time_chart fail immediately with an InvalidInput         *)
(* condition instead of returning a computed or partial result: on such     *)
(* input the calculator never enters its loop and ends raising, with no     *)
(* table returned, and the chart neither enters its loop nor returns a      *)
(* value.                                                                   *)
C26_InvalidInputFailsFast ==
    InvalidInput =>
        /\ pc # "loop"
        /\ pc = "done" => (raised /\ result_df = <<>>)
        /\ car_pc \notin {"loop", "returned"}

----------------------------------------------------------------------------
(* C30: the returns recorded for an event depend only on that event's own   *)
(* timestamp and the price series: for any event table, including one whose *)
(* rows share index labels, processing one event never writes or overwrites *)
(* another event's return values, the output has one row per input event,   *)
(* and an event without an anchor ends with None for every horizon whatever *)
(* the other events are.                                                    *)

\* The returns the calculator records for the event of position i when the
\* table holds that event alone.
ReturnsAlone(i) ==
    calculate_post_transaction_returns(<<insider_df[i]>>, stock_df, windows)
        .df[1].returns

C30_ReturnsDependOnOwnEventOnly ==
    pc \in {"loop", "done"} =>
        /\ Len(result_df) = Len(insider_df)
        /\ \A i \in DOMAIN result_df :
               /\ (pc = "done" \/ i < row) => result_df[i].returns = ReturnsAlone(i)
               /\ (pc = "loop" /\ i >= row) =>
                      \A h \in Range(windows) : IsNaN(Recorded(i, h))
               /\ (pc = "done" /\ Len(stock_df) > 0
                       /\ find_closest_date(Dates(stock_df), result_df[i].date) = None) =>
                      \A h \in Range(windows) : IsNaN(Recorded(i, h))

====
